---- MODULE Spec2Model ----
(***************************************************************************)
(* Authentication / authorization gateway of thakii-backend-api.           *)
(*                                                                         *)
(*   - the Admin Registry (package/core/admin_manager.py) over a document  *)
(*     store whose reads and writes may fail;                              *)
(*   - the request pipeline of core/auth_middleware.py (bearer extraction, *)
(*     token classification, session-token / identity-token verification,  *)
(*     the admin check and the wrapped operation).                         *)
(*                                                                         *)
(* Strings that the code inspects character by character (emails) are      *)
(* sequences of one-character strings.                                     *)
(***************************************************************************)
EXTENDS Integers, Sequences, FiniteSets, TLC

VARIABLES
    admins,         \* the 'admin_users' collection: document id -> document
    result,         \* what the last Admin Registry call did and returned
    now,            \* the wall clock (seconds)
    firebase_apps,  \* firebase_admin._apps is non-empty (the Admin SDK is initialised)
    jwks_cache,     \* _jwks_cache
    guard,          \* the decorator of the requested operation: "auth" or "admin"
    auth_header,    \* the request's Authorization header
    pc,             \* where the request is in the pipeline
    token,          \* the bearer token extracted from the header
    is_custom,      \* the classifier's answer
    token_data,     \* the verified claims, with _token_type
    error,          \* the rejection: kind, message prefix, underlying reason
    calls,          \* the components the request has invoked, in order
    current_user,   \* g.current_user
    local_tz,       \* the time zone of the process: local time - UTC (seconds)
    verified,       \* what verify_custom_token returned or raised last
    custom_token,   \* the session token issued last
    tasks,          \* the video tasks: video_id -> document
    response,       \* the response of the last task operation
    threads         \* the requests handled concurrently: thread -> its locals

registryVars == <<admins, result>>
processVars == <<firebase_apps, jwks_cache>>
requestVars == <<guard, auth_header, pc, token, is_custom, token_data, error, calls,
                 current_user>>
requestVarsButUser == <<guard, auth_header, pc, token, is_custom, token_data, error, calls>>
sessionVars == <<local_tz, verified, custom_token>>
taskVars == <<tasks, response>>
vars == <<admins, result, now, firebase_apps, jwks_cache, guard, auth_header, pc, token,
          is_custom, token_data, error, calls, current_user, local_tz, verified,
          custom_token, tasks, response, threads>>

----------------------------------------------------------------------------
(* Bounds of the model *)

MaxRecords == 2      \* document ids the store can hand out
MaxTime == 1         \* the clock of the registry runs 0..MaxTime
MaxAuthTime == 3600  \* the clock of the request pipeline runs up to MaxAuthTime
MaxStartupRecords == 4  \* documents the store can hold when only the startup runs
MaxTasks == 2           \* video tasks the store can hold
MaxThreads == 2          \* requests handled at the same time
MaxZoneHours == 6    \* session tokens are followed until this long after 72 hours

----------------------------------------------------------------------------
(* Values *)

OUDAY == <<"o","u","d","a","y",".","k","h","a","l","e","d","@","g","m","a","i","l",".","c","o","m">>
APPSAAWT == <<"a","p","p","s","a","a","w","t","@","g","m","a","i","l",".","c","o","m">>
NEW_ADMIN == <<"n","@","a",".","c">>
NOT_AN_EMAIL == <<"n","o","t","-","a","n","-","e","m","a","i","l">>
NO_DOT == <<"a","@","b">>
NO_AT == <<"a",".","b">>
SYSTEM == <<"s","y","s","t","e","m">>
EMPTY == <<>>

\* a field a document does not have (Python: key absent / None)
Null == <<"None">>
NoTime == -1

SUPER_ADMINS_LIST == <<OUDAY, APPSAAWT>>
SUPER_ADMINS == {SUPER_ADMINS_LIST[i] : i \in 1..Len(SUPER_ADMINS_LIST)}

\* the inputs the model feeds to the registry
Emails == {OUDAY, APPSAAWT, NEW_ADMIN, NOT_AN_EMAIL, NO_DOT, NO_AT}
StoredEmails == {OUDAY, NEW_ADMIN}
Callers == {EMPTY, OUDAY}
Ids == 1..MaxRecords
Times == 0..MaxTime

\* `ch in s` of Python, for a one-character ch
Contains(ch, s) == \E i \in 1..Len(s) : s[i] = ch

----------------------------------------------------------------------------
(* The document store behind the Admin Registry (firestore_db.db) *)

\* A document of the 'admin_users' collection.  role, description, added_by,
\* created_at, updated_by, last_login and login_count are payload that no
\* registry decision reads; the model carries the fields the registry decides
\* on or that remove_admin writes.
NewAdminData(email, t) ==
    [ email          |-> email,
      status         |-> "active",
      is_super_admin |-> email \in SUPER_ADMINS,
      updated_at     |-> t,
      removed_by     |-> Null,
      removed_at     |-> NoTime ]

\* collection.add(): the store generates the id; ids are opaque to the code,
\* so the model hands out the least unused one
FreshId(db) ==
    LET unused == (1..(Cardinality(DOMAIN db) + 1)) \ DOMAIN db IN
    CHOOSE i \in unused : \A j \in unused : i <= j

\* document(id).update(fields): a partial merge
StoreUpdate(db, id, fields) ==
    [db EXCEPT ![id] = [f \in DOMAIN db[id] |->
                           IF f \in DOMAIN fields THEN fields[f] ELSE db[id][f]]]

\* the value a registry call returns, with the store calls it made
Return(op, id, email, by, success, err, storeOps) ==
    [ op |-> op, id |-> id, email |-> email, by |-> by, success |-> success,
      error |-> err, storeOps |-> storeOps ]

NoResult == Return("none", 0, Null, Null, FALSE, "", <<>>)

----------------------------------------------------------------------------
(* AdminManager *)

\* every document with its id; a failing read is swallowed and yields []
\* (the sort by created_at orders a list whose callers only test membership)
get_all_admins(db, readOk) ==
    IF readOk THEN {[id |-> i, doc |-> db[i]] : i \in DOMAIN db} ELSE {}

InvalidEmailFormatBoth(email) == ~Contains("@", email) /\ ~Contains(".", email)

\* the format test of add_admin
InvalidEmailFormat(email) == ~Contains("@", email) \/ ~Contains(".", email)

\* the existence test of add_admin
AlreadyExists(existing_admins, email) ==
    \E admin \in existing_admins : admin.doc.email = email

\* add_admin: the collection after the call and the value returned
add_admin(db, email, readOk, writeOk, t) ==
    IF InvalidEmailFormat(email)
    THEN [db |-> db,
          ret |-> Return("add", 0, email, Null, FALSE, "Invalid email format", <<>>)]
    ELSE LET existing_admins == get_all_admins(db, readOk) IN
         IF AlreadyExists(existing_admins, email)
         THEN [db |-> db,
               ret |-> Return("add", 0, email, Null, FALSE, "already exists",
                              <<"stream">>)]
         ELSE IF ~writeOk
         THEN [db |-> db,
               ret |-> Return("add", 0, email, Null, FALSE, "store error",
                              <<"stream", "add">>)]
         ELSE LET id == FreshId(db) IN
              [db |-> (id :> NewAdminData(email, t)) @@ db,
               ret |-> Return("add", id, email, Null, TRUE, "", <<"stream", "add">>)]

IsProtectedFlagOnly(admin_data) == admin_data.is_super_admin

\* the super-admin guard of remove_admin
IsProtected(admin_data) ==
    admin_data.is_super_admin \/ admin_data.email \in SUPER_ADMINS

\* the fields remove_admin writes
RemovalFields(removed_by, t) ==
    [status |-> "removed", removed_by |-> removed_by, removed_at |-> t, updated_at |-> t]

\* a remove_admin that deletes the document instead of archiving it
remove_admin_delete(db, admin_id, removed_by, getOk, updateOk, t) ==
    IF getOk /\ updateOk /\ admin_id \in DOMAIN db /\ ~IsProtected(db[admin_id])
    THEN [db |-> [i \in DOMAIN db \ {admin_id} |-> db[i]],
          ret |-> Return("remove", admin_id, db[admin_id].email, removed_by, TRUE, "",
                         <<"get", "delete">>)]
    ELSE [db |-> db,
          ret |-> Return("remove", admin_id, Null, removed_by, FALSE, "Admin not found",
                         <<"get">>)]

remove_admin(db, admin_id, removed_by, getOk, updateOk, t) ==
    IF ~getOk
    THEN [db |-> db,
          ret |-> Return("remove", admin_id, Null, removed_by, FALSE, "store error",
                         <<"get">>)]
    ELSE IF admin_id \notin DOMAIN db
    THEN [db |-> db,
          ret |-> Return("remove", admin_id, Null, removed_by, FALSE, "Admin not found",
                         <<"get">>)]
    ELSE LET admin_data == db[admin_id] IN
         IF IsProtected(admin_data)
         THEN [db |-> db,
               ret |-> Return("remove", admin_id, admin_data.email, removed_by, FALSE,
                              "Cannot remove super admin", <<"get">>)]
         ELSE IF ~updateOk
         THEN [db |-> db,
               ret |-> Return("remove", admin_id, admin_data.email, removed_by, FALSE,
                              "store error", <<"get", "update">>)]
         ELSE [db |-> StoreUpdate(db, admin_id, RemovalFields(removed_by, t)),
               ret |-> Return("remove", admin_id, admin_data.email, removed_by, TRUE, "",
                              <<"get", "update">>)]

\* the fields a caller may send to update_admin, and the dictionaries tried
UpdateFields == {"status", "is_super_admin", "email"}
MkUpdates(D, st, sa, em) ==
    [f \in D |-> CASE f = "status" -> st
                   [] f = "is_super_admin" -> sa
                   [] f = "email" -> em]
UpdateInputs ==
    {MkUpdates(D, st, sa, em) :
        D \in {{}, {"status"}, {"is_super_admin"}, {"email"}, {"status", "is_super_admin"}},
        st \in {"active", "removed"}, sa \in BOOLEAN, em \in StoredEmails}
Restrict(fields, D) == [f \in D |-> fields[f]]

\* the dictionary update_admin writes: is_super_admin is dropped for a document
\* whose email is a fixed super admin, then the timestamp is added
StrippedUpdates(admin_data, updates) ==
    IF "is_super_admin" \in DOMAIN updates /\ admin_data.email \in SUPER_ADMINS
    THEN Restrict(updates, DOMAIN updates \ {"is_super_admin"})
    ELSE updates

WithMetadata(updates, t) == [updated_at |-> t] @@ updates

update_admin(db, admin_id, updates, getOk, updateOk, regetOk, t) ==
    IF ~getOk
    THEN [db |-> db,
          ret |-> Return("update", admin_id, Null, Null, FALSE, "store error", <<"get">>)]
    ELSE IF admin_id \notin DOMAIN db
    THEN [db |-> db,
          ret |-> Return("update", admin_id, Null, Null, FALSE, "Admin not found",
                         <<"get">>)]
    ELSE LET admin_data == db[admin_id]
             written == WithMetadata(StrippedUpdates(admin_data, updates), t)
         IN
         IF ~updateOk
         THEN [db |-> db,
               ret |-> Return("update", admin_id, admin_data.email, Null, FALSE,
                              "store error", <<"get", "update">>)]
         ELSE LET db2 == StoreUpdate(db, admin_id, written) IN
              IF ~regetOk
              THEN [db |-> db2,
                    ret |-> Return("update", admin_id, admin_data.email, Null, FALSE,
                                   "store error", <<"get", "update", "get">>)]
              ELSE [db |-> db2,
                    ret |-> Return("update", admin_id, db2[admin_id].email, Null, TRUE,
                                   "", <<"get", "update", "get">>)]

\* ensure_super_admins_exist: one add_admin per fixed super admin whose email is
\* not among the emails read at the start; k is the position in SUPER_ADMINS,
\* store[k] the store's answers to the read and the write of the k-th add_admin
RECURSIVE EnsureFrom(_, _, _, _, _)
EnsureFrom(db, existing_emails, k, store, t) ==
    IF k > Len(SUPER_ADMINS_LIST) THEN db
    ELSE LET super_admin_email == SUPER_ADMINS_LIST[k] IN
         IF super_admin_email \notin existing_emails
         THEN EnsureFrom(add_admin(db, super_admin_email, store[k][1], store[k][2], t).db,
                         existing_emails, k + 1, store, t)
         ELSE EnsureFrom(db, existing_emails, k + 1, store, t)

ensure_super_admins_exist(db, listOk, store, t) ==
    LET existing_admins == get_all_admins(db, listOk)
        existing_emails == {admin.doc.email : admin \in existing_admins}
    IN [db |-> EnsureFrom(db, existing_emails, 1, store, t),
        ret |-> Return("ensure", 0, Null, Null, TRUE, "", <<"stream">>)]

----------------------------------------------------------------------------
(* The calls of the Admin Registry *)

\* the store's answers to the n store calls of one registry call: all succeed,
\* or one of them raises (the calls after it are not made)
StoreAnswers(n) == {[i \in 1..n |-> i # k] : k \in 0..n}

\* room in the store for the documents a call may create
Room(n) == Cardinality(DOMAIN admins) + n <= MaxRecords

Apply(r) ==
    /\ admins' = r.db
    /\ result' = r.ret
    /\ UNCHANGED <<now, processVars, requestVars, sessionVars, taskVars, threads>>

AddAdmin ==
    \E email \in Emails, store \in StoreAnswers(2) :
        /\ Room(1)
        /\ Apply(add_admin(admins, email, store[1], store[2], now))

RemoveAdmin ==
    \E admin_id \in Ids, removed_by \in Callers, store \in StoreAnswers(2) :
        Apply(remove_admin(admins, admin_id, removed_by, store[1], store[2], now))

UpdateAdmin ==
    \E admin_id \in Ids, updates \in UpdateInputs, store \in StoreAnswers(3) :
        Apply(update_admin(admins, admin_id, updates, store[1], store[2], store[3], now))

EnsureSuperAdminsExist ==
    \E listOk \in BOOLEAN,
       store \in [1..Len(SUPER_ADMINS_LIST) -> StoreAnswers(2)] :
        /\ Room(Len(SUPER_ADMINS_LIST))
        /\ Apply(ensure_super_admins_exist(admins, listOk, store, now))

\* time passes
Tick ==
    /\ now < MaxTime
    /\ now' = now + 1
    /\ UNCHANGED <<registryVars, processVars, requestVars, sessionVars, taskVars, threads>>

----------------------------------------------------------------------------
(* Tokens *)

CUSTOM_TOKEN_ALGORITHM == "HS256"
CUSTOM_TOKEN_ISSUER == "thakii-backend"
CUSTOM_TOKEN_AUDIENCE == "thakii-frontend"
CUSTOM_TOKEN_EXPIRY_HOURS == 72
FIREBASE_PROJECT_ID == "thakii-973e3"
FIREBASE_ISSUER == "https://securetoken.google.com/thakii-973e3"
JWKS_TTL == 3600

\* A token as the code sees it.  jwt: the three segments decode; alg, kid: the
\* header; signer: the key that made the signature ("secret" is
\* CUSTOM_TOKEN_SECRET, "k1"/"k2" the identity provider's private keys, "forged"
\* any other key); payload: the claims ("" , Null, NoTime: claim absent).
Payload(token_type, iss, aud, exp, iat, nbf, user_id, sub, email, is_admin) ==
    [ token_type |-> token_type, iss |-> iss, aud |-> aud, exp |-> exp, iat |-> iat,
      nbf |-> nbf, uid |-> "", user_id |-> user_id, sub |-> sub, email |-> email,
      is_admin |-> is_admin ]

Token(alg, kid, signer, payload) ==
    [ jwt |-> TRUE, empty |-> FALSE, alg |-> alg, kid |-> kid, signer |-> signer,
      payload |-> payload ]

NoPayload == Payload("", "", "", NoTime, NoTime, NoTime, "", "", Null, FALSE)

\* a bearer value that is not a JWT: garbage, and the empty string
NotAJwt == [ jwt |-> FALSE, empty |-> FALSE, alg |-> "", kid |-> "", signer |-> "forged",
             payload |-> NoPayload ]
EmptyToken == [NotAJwt EXCEPT !.empty = TRUE]

\* claims with one field replaced
With(payload, field, value) == [payload EXCEPT ![field] = value]

----------------------------------------------------------------------------
(* CustomTokenManager (core/custom_auth.py) *)

\* the outcome of a verification: the decoded claims or the error raised
Ok(data) == [ok |-> TRUE, data |-> data, error |-> ""]
Err(kind) == [ok |-> FALSE, data |-> NoPayload, error |-> kind]

\* a classifier that checks the signature
is_custom_token_verifying(tok) ==
    IF ~tok.jwt THEN FALSE
    ELSE tok.payload.token_type = "custom_backend"
         /\ tok.payload.iss = CUSTOM_TOKEN_ISSUER
         /\ tok.signer = "secret"

\* is_custom_token: the payload is decoded without verifying anything
is_custom_token(tok) ==
    IF ~tok.jwt THEN FALSE
    ELSE tok.payload.token_type = "custom_backend"
         /\ tok.payload.iss = CUSTOM_TOKEN_ISSUER

\* the claim is not in the payload
IsAbsent(payload, c) ==
    CASE c \in {"exp", "iat", "nbf"} -> payload[c] = NoTime
      [] c = "email" -> payload[c] = Null
      [] OTHER -> payload[c] = ""

\* jwt.decode's checks of the registered claims, in the library's order
\* (iat, nbf, exp, iss, aud); a claim that is absent is not checked unless
\* it is required
ValidateClaims(payload, require, issuer, audience, t) ==
    IF \E c \in require : IsAbsent(payload, c) THEN "MissingClaim"
    ELSE IF payload.iat # NoTime /\ payload.iat > t THEN "Immature"
    ELSE IF payload.nbf # NoTime /\ payload.nbf > t THEN "Immature"
    ELSE IF payload.exp # NoTime /\ payload.exp <= t THEN "Expired"
    ELSE IF payload.iss = "" THEN "MissingClaim"
    ELSE IF payload.iss # issuer THEN "IssuerMismatch"
    ELSE IF payload.aud = "" THEN "MissingClaim"
    ELSE IF payload.aud # audience THEN "AudienceMismatch"
    ELSE ""


\* a verifier that does not look at the token type
verify_custom_token_untyped(tok, t) ==
    IF ~tok.jwt THEN Err("MalformedToken")
    ELSE IF tok.alg # CUSTOM_TOKEN_ALGORITHM \/ tok.signer # "secret"
        THEN Err("SignatureInvalid")
    ELSE LET e == ValidateClaims(tok.payload, {"exp", "iat", "user_id", "email"},
                                 CUSTOM_TOKEN_ISSUER, CUSTOM_TOKEN_AUDIENCE, t) IN
         IF e # "" THEN Err(e) ELSE Ok(tok.payload)

\* verify_custom_token: signature under the shared secret, required claims,
\* iat/nbf/exp, issuer, audience, then the token type
verify_custom_token(tok, t) ==
    IF ~tok.jwt THEN Err("MalformedToken")
    ELSE IF tok.alg # CUSTOM_TOKEN_ALGORITHM \/ tok.signer # "secret"
        THEN Err("SignatureInvalid")
    ELSE LET e == ValidateClaims(tok.payload, {"exp", "iat", "user_id", "email"},
                                 CUSTOM_TOKEN_ISSUER, CUSTOM_TOKEN_AUDIENCE, t) IN
         IF e # "" THEN Err(e)
         ELSE IF tok.payload.token_type # "custom_backend" THEN Err("WrongTokenType")
         ELSE Ok(tok.payload)

----------------------------------------------------------------------------
(* Identity-provider tokens (core/auth_middleware.py) *)

Kids == {"k1", "k2"}

\* auth.verify_id_token of the Admin SDK: it accepts a token the identity
\* provider signed for this project that is in its validity window, and adds
\* 'uid'; sdkOk is whether the SDK can do its work (certificates, credentials)
verify_id_token(tok, sdkOk, t) ==
    IF ~sdkOk \/ ~tok.jwt THEN Err("SdkRejected")
    ELSE IF /\ tok.alg = "RS256"
            /\ tok.kid \in Kids
            /\ tok.signer = tok.kid
            /\ tok.payload.sub # ""
            /\ ValidateClaims(tok.payload, {"exp", "iat", "sub"},
                              FIREBASE_ISSUER, FIREBASE_PROJECT_ID, t) = ""
         THEN Ok(With(tok.payload, "uid", tok.payload.sub))
         ELSE Err("SdkRejected")

\* the key-set cache: _jwks_cache
JwksNone == [present |-> FALSE, kids |-> {}]
Jwks(K) == [present |-> TRUE, kids |-> K]
EmptyCache == [keys |-> JwksNone, fetched_at |-> 0]

\* what one GET of the key-set endpoint gives: a key set, or an exception
FetchFailed == [ok |-> FALSE, jwks |-> JwksNone]
Fetched(K) == [ok |-> TRUE, jwks |-> Jwks(K)]
FetchOutcomes == {FetchFailed} \cup {Fetched({k}) : k \in Kids}

\* a key-set lookup that never uses what it has cached
get_jwks_uncached(cache, fetch, t) ==
    IF ~fetch.ok
    THEN [ok |-> FALSE, jwks |-> JwksNone, cache |-> cache, fetched |-> TRUE]
    ELSE [ok |-> TRUE, jwks |-> fetch.jwks,
          cache |-> [keys |-> fetch.jwks, fetched_at |-> t], fetched |-> TRUE]

\* a key-set lookup that serves whatever it has cached, however old
get_jwks_never_stale(cache, fetch, t) ==
    IF cache.keys.present
    THEN [ok |-> TRUE, jwks |-> cache.keys, cache |-> cache, fetched |-> FALSE]
    ELSE IF ~fetch.ok
    THEN [ok |-> FALSE, jwks |-> JwksNone, cache |-> cache, fetched |-> TRUE]
    ELSE [ok |-> TRUE, jwks |-> fetch.jwks,
          cache |-> [keys |-> fetch.jwks, fetched_at |-> t], fetched |-> TRUE]

\* _get_jwks_cached: the key set (ok) or the fetch's exception, the cache
\* after the call and whether the endpoint was fetched
get_jwks_cached(cache, fetch, t) ==
    IF cache.keys.present /\ t - cache.fetched_at < JWKS_TTL
    THEN [ok |-> TRUE, jwks |-> cache.keys, cache |-> cache, fetched |-> FALSE]
    ELSE IF ~fetch.ok
    THEN [ok |-> FALSE, jwks |-> JwksNone, cache |-> cache, fetched |-> TRUE]
    ELSE [ok |-> TRUE, jwks |-> fetch.jwks,
          cache |-> [keys |-> fetch.jwks, fetched_at |-> t], fetched |-> TRUE]

\* jwt.decode(tok, key, algorithms=['RS256'], audience, issuer) with the
\* key of the key set whose kid is the tok's
DecodeWithKey(tok, t) ==
    IF tok.alg # "RS256" \/ tok.signer # tok.kid THEN Err("SignatureInvalid")
    ELSE LET e == ValidateClaims(tok.payload, {}, FIREBASE_ISSUER,
                                 FIREBASE_PROJECT_ID, t) IN
         IF e # "" THEN Err(e) ELSE Ok(tok.payload)

\* the calls a key-set lookup made
JwksCalls(r) == IF r.fetched THEN <<"_get_jwks_cached", "_fetch_jwks">>
                ELSE <<"_get_jwks_cached">>

\* a key-set verification whose failed fetch is not reported as an error kind
verify_with_jwks_unreported(tok, cache, fetch1, fetch2, t) ==
    [res |-> IF fetch1.ok THEN DecodeWithKey(tok, t) ELSE Err(""), cache |-> cache,
     calls |-> <<"_get_jwks_cached", "_fetch_jwks">>]

\* a key-set verification that reports a key id missing from the key set at
\* hand as unknown, without the forced refetch
verify_with_jwks_no_refetch(tok, cache, fetch1, fetch2, t) ==
    LET first == get_jwks_cached(cache, fetch1, t) IN
    [res |-> IF ~first.ok THEN Err("KeySetUnavailable")
             ELSE IF ~tok.jwt \/ tok.kid = "" THEN Err("MalformedToken")
             ELSE IF tok.kid \in first.jwks.kids THEN DecodeWithKey(tok, t)
             ELSE Err("UnknownKey"),
     cache |-> first.cache, calls |-> JwksCalls(first)]

\* _verify_with_jwks: the outcome, the cache it leaves and the calls it made;
\* fetch1, fetch2 are the answers of the endpoint to its first and second GET
verify_with_jwks(tok, cache, fetch1, fetch2, t) ==
    LET first == get_jwks_cached(cache, fetch1, t) IN
    IF ~first.ok
    THEN [res |-> Err("KeySetUnavailable"), cache |-> first.cache,
          calls |-> JwksCalls(first)]
    ELSE IF ~tok.jwt
    THEN [res |-> Err("MalformedToken"), cache |-> first.cache, calls |-> JwksCalls(first)]
    ELSE IF tok.kid = ""
    THEN [res |-> Err("MalformedToken"), cache |-> first.cache, calls |-> JwksCalls(first)]
    ELSE IF tok.kid \in first.jwks.kids
    THEN [res |-> DecodeWithKey(tok, t), cache |-> first.cache,
          calls |-> JwksCalls(first)]
    ELSE LET cleared == [first.cache EXCEPT !.keys = JwksNone]
             second == get_jwks_cached(cleared, IF first.fetched THEN fetch2 ELSE fetch1, t)
         IN
         IF ~second.ok
         THEN [res |-> Err("KeySetUnavailable"), cache |-> second.cache,
               calls |-> JwksCalls(first) \o JwksCalls(second)]
         ELSE IF tok.kid \in second.jwks.kids
         THEN [res |-> DecodeWithKey(tok, t), cache |-> second.cache,
               calls |-> JwksCalls(first) \o JwksCalls(second)]
         ELSE [res |-> Err("UnknownKey"), cache |-> second.cache,
               calls |-> JwksCalls(first) \o JwksCalls(second)]

----------------------------------------------------------------------------
(* The requests tried *)

EXP_FAR == CUSTOM_TOKEN_EXPIRY_HOURS * 3600

\* a session token as generate_custom_token signs it at time 0
SessionToken(email, is_admin) ==
    Token(CUSTOM_TOKEN_ALGORITHM, "", "secret",
          Payload("custom_backend", CUSTOM_TOKEN_ISSUER, CUSTOM_TOKEN_AUDIENCE,
                  EXP_FAR, 0, 0, "u1", "", email, is_admin))

\* an ID token of the identity provider, signed with its key kid
ProviderToken(kid, email) ==
    Token("RS256", kid, kid,
          Payload("", FIREBASE_ISSUER, FIREBASE_PROJECT_ID, EXP_FAR, 0, 0,
                  "u1", "u1", email, FALSE))

\* a token and the tokens that differ from it in one header field or one claim
Variants(tok, signers, claims) ==
    {tok}
    \cup {[tok EXCEPT !.signer = sg] : sg \in signers}
    \cup {[tok EXCEPT !.alg = a] : a \in {"HS256", "RS256"}}
    \cup {[tok EXCEPT !.payload = With(tok.payload, c[1], c[2])] : c \in claims}

SessionTokens ==
    {SessionToken(e, a) : e \in {OUDAY, NEW_ADMIN}, a \in BOOLEAN}
    \cup UNION {Variants(SessionToken(e, TRUE), {"forged"},
                         {<<"exp", 0>>, <<"exp", JWKS_TTL>>, <<"nbf", EXP_FAR>>,
                          <<"aud", FIREBASE_PROJECT_ID>>, <<"iss", "evil">>,
                          <<"token_type", "other">>, <<"user_id", "">>})
                   : e \in {OUDAY, NEW_ADMIN}}

ProviderTokens ==
    {ProviderToken(k, e) : k \in Kids, e \in {OUDAY, NEW_ADMIN}}
    \cup {ProviderToken("k1", Null)}
    \cup {[ProviderToken("k1", OUDAY) EXCEPT !.kid = ""]}
    \cup UNION {Variants(ProviderToken("k1", e), {"forged", "secret"},
                         {<<"exp", 0>>, <<"exp", JWKS_TTL>>, <<"aud", "other-project">>,
                          <<"iss", "evil">>, <<"is_admin", TRUE>>})
                   : e \in {OUDAY, NEW_ADMIN}}

Tokens == SessionTokens \cup ProviderTokens \cup {NotAJwt, EmptyToken}

\* the Authorization header: absent, or the words of its value (split at ' ')
NoHeader == [present |-> FALSE, words |-> <<>>]
Header(words) == [present |-> TRUE, words |-> words]
Headers ==
    {NoHeader, Header(<<>>), Header(<<"Bearer">>)}
    \cup {Header(<<scheme, SessionToken(OUDAY, TRUE)>>) : scheme \in {"Basic", "bearer"}}
    \cup {Header(<<"Bearer", tok>>) : tok \in Tokens}
    \cup {Header(<<"Bearer", NotAJwt, SessionToken(OUDAY, TRUE)>>)}

----------------------------------------------------------------------------
(* The request pipeline: verify_auth_token, require_auth, require_admin *)

\* decoded_token with its '_token_type'; error and the response it becomes
TokenData(token_type, payload) == [_token_type |-> token_type, claims |-> payload]
NoTokenData == TokenData("", NoPayload)
Error(kind, message, reason) == [kind |-> kind, message |-> message, reason |-> reason]
NoError == Error("", "", "")
NoUser == [uid |-> "", email |-> Null, is_admin |-> FALSE]

\* the time zone of a process whose local time is UTC
Zone(offset, offset_later) == [offset |-> offset, offset_later |-> offset_later]
UTC == Zone(0, 0)
NotVerified == Err("")
Response(op, status, body, video_id) ==
    [op |-> op, status |-> status, body |-> body, video_id |-> video_id]
NoResponse == Response("", 0, "", 0)

\* no request has arrived yet
NoRequest ==
    /\ guard = "auth"
    /\ auth_header = NoHeader
    /\ pc = "Idle"
    /\ token = EmptyToken
    /\ is_custom = FALSE
    /\ token_data = NoTokenData
    /\ error = NoError
    /\ calls = <<>>
    /\ current_user = NoUser
    /\ local_tz = UTC
    /\ verified = NotVerified
    /\ custom_token = EmptyToken
    /\ tasks = <<>>
    /\ response = NoResponse
    /\ threads = <<>>

Init ==
    /\ admins = <<>>
    /\ result = NoResult
    /\ now = 0
    /\ firebase_apps = FALSE
    /\ jwks_cache = EmptyCache
    /\ NoRequest

NextRegistry ==
    \/ AddAdmin
    \/ RemoveAdmin
    \/ UpdateAdmin
    \/ EnsureSuperAdminsExist
    \/ Tick

SpecRegistry == Init /\ [][NextRegistry]_vars

\* the process is started (and restarted): __main__ runs
\* ensure_super_admins_exist before it serves
Startup ==
    \E listOk \in BOOLEAN,
       store \in [1..Len(SUPER_ADMINS_LIST) -> StoreAnswers(2)] :
        LET r == ensure_super_admins_exist(admins, listOk, store, now) IN
        /\ Cardinality(DOMAIN r.db) <= MaxStartupRecords
        /\ Apply(r)

NextStartup ==
    \/ Startup
    \/ Tick

SpecStartup == Init /\ [][NextStartup]_vars

\* a request arrives at an operation wrapped by require_auth or require_admin
NewRequest ==
    /\ pc \in {"Idle", "Admitted", "Rejected"}
    /\ \E g \in {"auth", "admin"}, h \in Headers :
         /\ guard' = g
         /\ auth_header' = h
    /\ pc' = "Unauthenticated"
    /\ token' = EmptyToken
    /\ is_custom' = FALSE
    /\ token_data' = NoTokenData
    /\ error' = NoError
    /\ calls' = <<>>
    /\ current_user' = NoUser
    /\ UNCHANGED <<registryVars, now, processVars, sessionVars, taskVars, threads>>

Reject(kind, message, reason) ==
    /\ pc' = "Rejected"
    /\ error' = Error(kind, message, reason)

\* auth_header.startswith('Bearer ')
StartsWithBearer(h) == Len(h.words) >= 2 /\ h.words[1] = "Bearer"

\* the header is read and the bearer token taken from it
Extract ==
    /\ pc = "Unauthenticated"
    /\ IF ~auth_header.present \/ auth_header.words = <<>>
       THEN /\ Reject("AuthHeaderMissing", "No Authorization header provided", "")
            /\ UNCHANGED token
       ELSE IF ~StartsWithBearer(auth_header)
       THEN /\ Reject("AuthHeaderMalformed", "Invalid Authorization header format", "")
            /\ UNCHANGED token
       ELSE /\ token' = auth_header.words[2]
            /\ pc' = "TokenExtracted"
            /\ UNCHANGED error
    /\ UNCHANGED <<registryVars, now, processVars, sessionVars, taskVars,
                   guard, auth_header, is_custom,
                   token_data, calls, current_user, threads>>

\* custom_token_manager.is_custom_token(token)
Classify ==
    /\ pc = "TokenExtracted"
    /\ is_custom' = is_custom_token(token)
    /\ calls' = calls \o <<"is_custom_token">>
    /\ pc' = "Classified"
    /\ UNCHANGED <<registryVars, now, processVars, sessionVars, taskVars,
                   guard, auth_header, token,
                   token_data, error, current_user, threads>>

\* an identity verification that gives up when the Admin SDK refuses
VerifyFirebase_primary_only(tok, apps, cache, sdkOk, fetch1, fetch2, t) ==
    LET sdk == verify_id_token(tok, sdkOk, t)
        jwks == verify_with_jwks(tok, cache, fetch1, fetch2, t)
    IN
    IF apps
    THEN [res |-> sdk, type |-> "firebase",
          message |-> "Firebase token verification failed", cache |-> cache,
          calls |-> <<"verify_id_token">>]
    ELSE [res |-> jwks.res, type |-> "firebase", message |-> "Token verification failed",
          cache |-> jwks.cache, calls |-> <<"_verify_with_jwks">> \o jwks.calls]

\* the verification verify_auth_token routes the token to: its outcome, the
\* message of a failure, the key-set cache afterwards and the calls made
VerifyCustom(tok, cache, t) ==
    [res |-> verify_custom_token(tok, t), type |-> "custom",
     message |-> "Custom token verification failed", cache |-> cache,
     calls |-> <<"verify_custom_token">>]

\* an identity verification that reports the Admin SDK's refusal when the
\* key-set path fails as well
VerifyFirebase_primary_reason(tok, apps, cache, sdkOk, fetch1, fetch2, t) ==
    LET sdk == verify_id_token(tok, sdkOk, t)
        jwks == verify_with_jwks(tok, cache, fetch1, fetch2, t)
    IN
    IF apps /\ sdk.ok
    THEN [res |-> sdk, type |-> "firebase", message |-> "", cache |-> cache,
          calls |-> <<"verify_id_token">>]
    ELSE [res |-> IF apps /\ ~jwks.res.ok THEN sdk ELSE jwks.res, type |-> "firebase",
          message |-> IF apps THEN "Firebase token verification failed"
                      ELSE "Token verification failed",
          cache |-> jwks.cache,
          calls |-> (IF apps THEN <<"verify_id_token">> ELSE <<>>)
                    \o <<"_verify_with_jwks">> \o jwks.calls]

VerifyFirebase(tok, apps, cache, sdkOk, fetch1, fetch2, t) ==
    LET sdk == verify_id_token(tok, sdkOk, t)
        jwks == verify_with_jwks(tok, cache, fetch1, fetch2, t)
    IN
    IF apps /\ sdk.ok
    THEN [res |-> sdk, type |-> "firebase", message |-> "", cache |-> cache,
          calls |-> <<"verify_id_token">>]
    ELSE [res |-> jwks.res, type |-> "firebase",
          message |-> IF apps THEN "Firebase token verification failed"
                      ELSE "Token verification failed",
          cache |-> jwks.cache,
          calls |-> (IF apps THEN <<"verify_id_token">> ELSE <<>>)
                    \o <<"_verify_with_jwks">> \o jwks.calls]

\* a routing that falls back to the identity verifier
Route_retrying(custom, tok, apps, cache, sdkOk, fetch1, fetch2, t) ==
    LET c == VerifyCustom(tok, cache, t)
        f == VerifyFirebase(tok, apps, cache, sdkOk, fetch1, fetch2, t)
    IN
    IF custom /\ c.res.ok THEN c
    ELSE IF custom THEN [f EXCEPT !.calls = c.calls \o f.calls]
    ELSE f

Route(custom, tok, apps, cache, sdkOk, fetch1, fetch2, t) ==
    IF custom THEN VerifyCustom(tok, cache, t)
    ELSE VerifyFirebase(tok, apps, cache, sdkOk, fetch1, fetch2, t)

Verify ==
    /\ pc = "Classified"
    /\ \E sdkOk \in BOOLEAN, fetch1 \in FetchOutcomes, fetch2 \in FetchOutcomes :
         LET v == Route(is_custom, token, firebase_apps, jwks_cache, sdkOk,
                        fetch1, fetch2, now) IN
         /\ jwks_cache' = v.cache
         /\ calls' = calls \o v.calls
         /\ IF v.res.ok
            THEN /\ token_data' = TokenData(v.type, v.res.data)
                 /\ pc' = "Verified"
                 /\ UNCHANGED error
            ELSE /\ Reject("AuthenticationFailed", v.message, v.res.error)
                 /\ UNCHANGED token_data
    /\ UNCHANGED <<registryVars, now, firebase_apps, sessionVars, taskVars,
                   guard, auth_header, token,
                   is_custom, current_user, threads>>

\* require_admin's decision; registry is the Admin Registry, which it ignores
is_admin_by_registry(data, registry) ==
    \E i \in DOMAIN registry :
        registry[i].email = data.claims.email /\ registry[i].status = "active"

is_admin(data, registry) ==
    IF data._token_type = "custom" THEN data.claims.is_admin
    ELSE IF data.claims.email # Null THEN data.claims.email \in SUPER_ADMINS
    ELSE FALSE

FirstOf(a, b, c) == IF a # "" THEN a ELSE IF b # "" THEN b ELSE c

\* g.current_user
UserInfo(data, admin) ==
    IF data._token_type = "custom"
    THEN [uid |-> data.claims.user_id, email |-> data.claims.email,
          is_admin |-> data.claims.is_admin]
    ELSE [uid |-> FirstOf(data.claims.uid, data.claims.user_id, data.claims.sub),
          email |-> data.claims.email, is_admin |-> admin]

\* the admin check of require_admin; require_auth has none
Authorize ==
    /\ pc = "Verified"
    /\ IF guard = "admin" /\ ~is_admin(token_data, admins)
       THEN /\ Reject("InsufficientPrivilege", "Insufficient privileges", "")
            /\ UNCHANGED current_user
       ELSE /\ current_user' = UserInfo(token_data, is_admin(token_data, admins))
            /\ pc' = "AuthorizationChecked"
            /\ UNCHANGED error
    /\ UNCHANGED <<registryVars, now, processVars, sessionVars, taskVars,
                   guard, auth_header, token,
                   is_custom, token_data, calls, threads>>

\* the wrapped operation invoked as soon as the token is verified
Admit_unchecked ==
    /\ pc \in {"Verified", "AuthorizationChecked"}
    /\ calls' = calls \o <<"f">>
    /\ pc' = "Admitted"
    /\ UNCHANGED <<registryVars, now, processVars, sessionVars, taskVars,
                   guard, auth_header, token,
                   is_custom, token_data, error, current_user, threads>>

\* return f(*args, **kwargs)
Admit ==
    /\ pc = "AuthorizationChecked"
    /\ calls' = calls \o <<"f">>
    /\ pc' = "Admitted"
    /\ UNCHANGED <<registryVars, now, processVars, sessionVars, taskVars,
                   guard, auth_header, token,
                   is_custom, token_data, error, current_user, threads>>

\* time passes between two requests: to just before the key set's age reaches
\* the TTL, then second by second
Elapse ==
    /\ pc \in {"Idle", "Admitted", "Rejected"}
    /\ now < MaxAuthTime
    /\ now' = IF now < JWKS_TTL - 1 THEN JWKS_TTL - 1 ELSE now + 1
    /\ UNCHANGED <<registryVars, processVars, requestVars, sessionVars, taskVars, threads>>

\* the registries the requests are served under
Registries ==
    LET one == add_admin(<<>>, NEW_ADMIN, TRUE, TRUE, 0).db
        two == add_admin(one, OUDAY, TRUE, TRUE, 0).db
    IN {<<>>, one, two, remove_admin(one, 1, OUDAY, TRUE, TRUE, 0).db}

InitAuth ==
    /\ admins \in Registries
    /\ result = NoResult
    /\ now = 0
    /\ firebase_apps \in BOOLEAN
    /\ jwks_cache = EmptyCache
    /\ NoRequest

NextAuth ==
    \/ NewRequest
    \/ Extract
    \/ Classify
    \/ Verify
    \/ Authorize
    \/ Admit
    \/ Elapse

SpecAuth == InitAuth /\ [][NextAuth]_vars

\* decorated_function runs to its return: no step of a request waits for ever
SpecAuthLive ==
    /\ SpecAuth
    /\ WF_vars(Extract) /\ WF_vars(Classify) /\ WF_vars(Verify)
    /\ WF_vars(Authorize) /\ WF_vars(Admit)

----------------------------------------------------------------------------
(* Issuing session tokens: CustomTokenManager.generate_custom_token *)

Hours(n) == n * 3600

\* datetime.timestamp() of a naive datetime: the wall time is read as local
\* time, so the epoch second is the wall time less the zone's offset
Timestamp(wall, offset) == wall - offset

\* the zones tried: UTC, a fixed offset east and west of UTC, and a zone west
\* of UTC whose daylight saving time starts within the next 72 hours
EAST == Zone(Hours(3), Hours(3))
WEST == Zone(0 - Hours(5), 0 - Hours(5))
WEST_DST == Zone(0 - Hours(5), 0 - Hours(4))
Zones == {UTC, EAST, WEST, WEST_DST}

\* the claims of a verified identity token
IdentityClaims(uid, user_id, sub, email) ==
    [Payload("", FIREBASE_ISSUER, FIREBASE_PROJECT_ID, NoTime, NoTime, NoTime,
             user_id, sub, email, FALSE) EXCEPT !.uid = uid]

ClaimsTried ==
    {IdentityClaims(id[1], id[2], id[3], e) :
        id \in {<<"u1", "", "">>, <<"", "u2", "u3">>, <<"", "", "u3">>,
                <<"u1", "u2", "u3">>},
        e \in {OUDAY, NEW_ADMIN, Null}}

\* an issue that copies the admin flag from the identity token's claims
generate_custom_token_flag_copied(firebase_user_data, t, tz) ==
    LET iat == Timestamp(t, tz.offset)
        exp == Timestamp(t + Hours(CUSTOM_TOKEN_EXPIRY_HOURS), tz.offset_later)
        user_id == FirstOf(firebase_user_data.uid, firebase_user_data.user_id,
                           firebase_user_data.sub)
        email == firebase_user_data.email
    IN Token(CUSTOM_TOKEN_ALGORITHM, "", "secret",
             Payload("custom_backend", CUSTOM_TOKEN_ISSUER, CUSTOM_TOKEN_AUDIENCE,
                     exp, iat, iat, user_id, "", email, firebase_user_data.is_admin))

\* generate_custom_token at the UTC time t in a process of time zone tz
generate_custom_token(firebase_user_data, t, tz) ==
    LET iat == Timestamp(t, tz.offset)
        exp == Timestamp(t + Hours(CUSTOM_TOKEN_EXPIRY_HOURS), tz.offset_later)
        user_id == FirstOf(firebase_user_data.uid, firebase_user_data.user_id,
                           firebase_user_data.sub)
        email == firebase_user_data.email
    IN Token(CUSTOM_TOKEN_ALGORITHM, "", "secret",
             Payload("custom_backend", CUSTOM_TOKEN_ISSUER, CUSTOM_TOKEN_AUDIENCE,
                     exp, iat, iat, user_id, "", email,
                     IF email # Null THEN email \in SUPER_ADMINS ELSE FALSE))

\* what a holder can make of a token without the secret: another signature,
\* a signature segment that does not decode, another header, other claims
Tampered(tok) ==
    {[tok EXCEPT !.signer = "forged"], [tok EXCEPT !.jwt = FALSE],
     [tok EXCEPT !.alg = "RS256"]}
    \cup {[tok EXCEPT !.signer = sg, !.payload = With(tok.payload, c[1], c[2])] :
            sg \in {"secret", "forged"},
            c \in {<<"email", Null>>, <<"user_id", "">>, <<"exp", NoTime>>,
                   <<"iat", NoTime>>, <<"iss", "evil">>, <<"iss", "">>,
                   <<"aud", FIREBASE_PROJECT_ID>>, <<"token_type", "other">>,
                   <<"token_type", "">>, <<"nbf", tok.payload.exp>>,
                   <<"exp", tok.payload.iat>>, <<"is_admin", TRUE>>}}

\* the instants at which something happens
SessionStart == Hours(24)
SessionClock ==
    {SessionStart, SessionStart + 1, SessionStart + Hours(CUSTOM_TOKEN_EXPIRY_HOURS),
     SessionStart + Hours(CUSTOM_TOKEN_EXPIRY_HOURS) + 1,
     SessionStart + Hours(CUSTOM_TOKEN_EXPIRY_HOURS + MaxZoneHours)}

\* a session token is issued for verified identity claims and handed out
Issue ==
    /\ \E claims \in ClaimsTried :
         /\ token_data' = TokenData("firebase", claims)
         /\ custom_token' = generate_custom_token(claims, now, local_tz)
    /\ token' = custom_token'
    /\ verified' = NotVerified
    /\ is_custom' = FALSE
    /\ calls' = <<>>
    /\ UNCHANGED <<registryVars, now, processVars, taskVars, local_tz, guard,
                   auth_header, pc, error, current_user, threads>>

\* the holder presents the token, or something made of it
Present ==
    /\ custom_token # EmptyToken
    /\ token' \in Tampered(custom_token) \cup {custom_token}
    /\ verified' = NotVerified
    /\ is_custom' = FALSE
    /\ calls' = <<>>
    /\ UNCHANGED <<registryVars, now, processVars, taskVars, local_tz, custom_token,
                   guard, auth_header, pc, token_data, error, current_user, threads>>

\* custom_token_manager.verify_custom_token(token)
VerifyToken ==
    /\ custom_token # EmptyToken
    /\ \A i \in DOMAIN calls : calls[i] # "verify_custom_token"
    /\ verified' = verify_custom_token(token, now)
    /\ calls' = calls \o <<"verify_custom_token">>
    /\ UNCHANGED <<registryVars, now, processVars, taskVars, local_tz, custom_token,
                   guard, auth_header, pc, token, is_custom, token_data, error,
                   current_user, threads>>

\* custom_token_manager.is_custom_token(token)
ClassifyToken ==
    /\ custom_token # EmptyToken
    /\ \A i \in DOMAIN calls : calls[i] # "is_custom_token"
    /\ is_custom' = is_custom_token(token)
    /\ calls' = calls \o <<"is_custom_token">>
    /\ UNCHANGED <<registryVars, now, processVars, taskVars, local_tz, custom_token,
                   verified, guard, auth_header, pc, token, token_data, error,
                   current_user, threads>>

\* time passes between two presentations
Pass ==
    /\ calls = <<>>
    /\ \E t \in SessionClock : t > now /\ now' = t
    /\ UNCHANGED <<registryVars, processVars, requestVars, sessionVars, taskVars, threads>>

InitSession ==
    /\ admins = <<>>
    /\ result = NoResult
    /\ now = SessionStart
    /\ firebase_apps = FALSE
    /\ jwks_cache = EmptyCache
    /\ guard = "auth"
    /\ auth_header = NoHeader
    /\ pc = "Idle"
    /\ token = EmptyToken
    /\ is_custom = FALSE
    /\ token_data = NoTokenData
    /\ error = NoError
    /\ calls = <<>>
    /\ current_user = NoUser
    /\ local_tz \in Zones
    /\ verified = NotVerified
    /\ custom_token = EmptyToken
    /\ tasks = <<>>
    /\ response = NoResponse
    /\ threads = <<>>

NextSession ==
    \/ Issue
    \/ Present
    \/ VerifyToken
    \/ ClassifyToken
    \/ Pass

SpecSession == InitSession /\ [][NextSession]_vars

----------------------------------------------------------------------------
(* The video task operations of app.py: upload, status, download *)

\* the users who call: two regular users and a super admin, each with a
\* session token or an identity token; and a caller with a forged token
UserSessionToken(uid, email) ==
    [SessionToken(email, email \in SUPER_ADMINS) EXCEPT !.payload.user_id = uid]
UserProviderToken(uid, email) ==
    [ProviderToken("k1", email) EXCEPT !.payload.user_id = uid, !.payload.sub = uid]
TaskHeaders ==
    {NoHeader}
    \cup {Header(<<"Bearer", UserSessionToken(u[1], u[2])>>) :
            u \in {<<"u1", NEW_ADMIN>>, <<"u2", NEW_ADMIN>>, <<"u3", OUDAY>>}}
    \cup {Header(<<"Bearer", UserProviderToken(u[1], u[2])>>) :
            u \in {<<"u1", NEW_ADMIN>>, <<"u2", Null>>}}
    \cup {Header(<<"Bearer",
                   [UserSessionToken("u1", NEW_ADMIN) EXCEPT !.signer = "forged"]>>)}

\* require_auth as one call: the user it puts in g.current_user (ok), or the
\* 401 it answers, and the key-set cache it leaves
Authenticate(h, apps, cache, sdkOk, fetch1, fetch2, t) ==
    IF ~h.present \/ h.words = <<>> \/ ~StartsWithBearer(h)
    THEN [ok |-> FALSE, user |-> NoUser, cache |-> cache]
    ELSE LET tok == h.words[2]
             v == Route(is_custom_token(tok), tok, apps, cache, sdkOk, fetch1, fetch2, t)
             data == TokenData(v.type, v.res.data)
         IN IF v.res.ok
            THEN [ok |-> TRUE, user |-> UserInfo(data, is_admin(data, <<>>)),
                  cache |-> v.cache]
            ELSE [ok |-> FALSE, user |-> NoUser, cache |-> v.cache]

\* is_super_admin(email)
is_super_admin(email) == email \in SUPER_ADMINS

\* an access check that lets every authenticated user through
AccessDenied_never(user, task) == FALSE

\* "Check if user owns this video or is admin"
AccessDenied(user, task) ==
    ~is_super_admin(user.email) /\ task.user_id # user.uid

\* the body of get_video_status; found: get_video_task returned a document
get_video_status(user, db, video_id, storeOk) ==
    IF ~storeOk THEN Response("status", 500, "error", video_id)
    ELSE IF video_id \notin DOMAIN db
    THEN Response("status", 404, "Video not found", video_id)
    ELSE IF AccessDenied(user, db[video_id])
    THEN Response("status", 403, "Access denied", video_id)
    ELSE Response("status", 200, "task", video_id)

\* the body of download_pdf; s3Ok: the presigned URL could be generated
download_pdf(user, db, video_id, storeOk, s3Ok) ==
    IF ~storeOk THEN Response("download", 500, "error", video_id)
    ELSE IF video_id \notin DOMAIN db
    THEN Response("download", 404, "Video not found", video_id)
    ELSE IF AccessDenied(user, db[video_id])
    THEN Response("download", 403, "Access denied", video_id)
    ELSE IF db[video_id].status # "done"
    THEN Response("download", 400, "PDF not ready yet", video_id)
    ELSE IF ~s3Ok THEN Response("download", 500, "error", video_id)
    ELSE Response("download", 200, "download_url", video_id)

\* a request to an operation under require_auth: answer is what its body returns
Serve(a, answer) ==
    /\ current_user' = a.user
    /\ jwks_cache' = a.cache
    /\ response' = IF a.ok THEN answer
                   ELSE Response("auth", 401, "Authentication required", 0)

VideoIds == 1..(MaxTasks + 1)

\* the identity provider answers (SDK and key-set endpoint), or it does not
IdpAnswers == {[sdkOk |-> TRUE, fetch |-> Fetched({"k1"})],
               [sdkOk |-> FALSE, fetch |-> FetchFailed]}

UploadVideo ==
    \E h \in TaskHeaders, idp \in IdpAnswers, storeOk \in BOOLEAN :
        LET a == Authenticate(h, firebase_apps, jwks_cache, idp.sdkOk, idp.fetch,
                              idp.fetch, now)
            video_id == Len(tasks) + 1
        IN
        /\ Len(tasks) < MaxTasks
        /\ current_user' = a.user
        /\ jwks_cache' = a.cache
        /\ IF ~a.ok
           THEN /\ response' = Response("auth", 401, "Authentication required", 0)
                /\ UNCHANGED tasks
           ELSE IF ~storeOk
           THEN /\ response' = Response("upload", 500, "error", video_id)
                /\ UNCHANGED tasks
           ELSE /\ tasks' = Append(tasks, [user_id |-> a.user.uid, status |-> "in_queue"])
                /\ response' = Response("upload", 200, "queued", video_id)
        /\ UNCHANGED <<registryVars, now, firebase_apps, requestVarsButUser, sessionVars, threads>>

GetVideoStatus ==
    \E h \in TaskHeaders, idp \in IdpAnswers, video_id \in VideoIds, storeOk \in BOOLEAN :
        LET a == Authenticate(h, firebase_apps, jwks_cache, idp.sdkOk, idp.fetch,
                              idp.fetch, now)
        IN
        /\ Serve(a, get_video_status(a.user, tasks, video_id, storeOk))
        /\ UNCHANGED <<registryVars, now, firebase_apps, requestVarsButUser, sessionVars,
                       tasks, threads>>

DownloadPdf ==
    \E h \in TaskHeaders, idp \in IdpAnswers, video_id \in VideoIds,
       storeOk \in BOOLEAN, s3Ok \in BOOLEAN :
        LET a == Authenticate(h, firebase_apps, jwks_cache, idp.sdkOk, idp.fetch,
                              idp.fetch, now)
        IN
        /\ Serve(a, download_pdf(a.user, tasks, video_id, storeOk, s3Ok))
        /\ UNCHANGED <<registryVars, now, firebase_apps, requestVarsButUser, sessionVars,
                       tasks, threads>>

\* the worker finishes a task
Processed ==
    /\ \E video_id \in DOMAIN tasks :
         /\ tasks[video_id].status = "in_queue"
         /\ tasks' = [tasks EXCEPT ![video_id].status = "done"]
    /\ UNCHANGED <<registryVars, now, processVars, requestVars, sessionVars, response, threads>>

InitTasks ==
    /\ admins = <<>>
    /\ result = NoResult
    /\ now = 0
    /\ firebase_apps \in BOOLEAN
    /\ jwks_cache = EmptyCache
    /\ NoRequest

NextTasks ==
    \/ UploadVideo
    \/ GetVideoStatus
    \/ DownloadPdf
    \/ Processed

SpecTasks == InitTasks /\ [][NextTasks]_vars

----------------------------------------------------------------------------
(* The token exchange of app.py and the operations under require_admin *)

\* verify_auth_token as one call: the verified claims with their
\* _token_type (ok) or an error, and the key-set cache it leaves
verify_auth_token(h, apps, cache, sdkOk, fetch1, fetch2, t) ==
    IF ~h.present \/ h.words = <<>> \/ ~StartsWithBearer(h)
    THEN [ok |-> FALSE, data |-> NoTokenData, cache |-> cache]
    ELSE LET tok == h.words[2]
             v == Route(is_custom_token(tok), tok, apps, cache, sdkOk, fetch1, fetch2, t)
         IN IF v.res.ok
            THEN [ok |-> TRUE, data |-> TokenData(v.type, v.res.data), cache |-> v.cache]
            ELSE [ok |-> FALSE, data |-> NoTokenData, cache |-> v.cache]

\* an exchange that issues for whatever token was verified
exchange_any_token(v, t, tz) ==
    IF ~v.ok
    THEN [status |-> 401, body |-> "Invalid Firebase token", custom_token |-> EmptyToken]
    ELSE [status |-> 200, body |-> "Token exchanged successfully",
          custom_token |-> generate_custom_token(v.data.claims, t, tz)]

\* exchange_firebase_token, given what verify_auth_token returned
exchange_firebase_token(v, t, tz) ==
    IF ~v.ok
    THEN [status |-> 401, body |-> "Invalid Firebase token", custom_token |-> EmptyToken]
    ELSE IF v.data._token_type = "custom"
    THEN [status |-> 400, body |-> "Token already custom", custom_token |-> EmptyToken]
    ELSE [status |-> 200, body |-> "Token exchanged successfully",
          custom_token |-> generate_custom_token(v.data.claims, t, tz)]

\* the headers a client can send: none, another scheme, identity tokens of
\* the provider (one with a custom claim is_admin) or a forgery of one, and
\* the session token the backend issued last or what can be made of it
\* without the secret
Presentable(issued) ==
    {NoHeader, Header(<<"Basic", ProviderToken("k1", OUDAY)>>)}
    \cup {Header(<<"Bearer", ProviderToken("k1", e)>>) : e \in {OUDAY, NEW_ADMIN, Null}}
    \cup {Header(<<"Bearer", [ProviderToken("k1", NEW_ADMIN)
                                EXCEPT !.payload.is_admin = TRUE]>>),
          Header(<<"Bearer", [ProviderToken("k1", OUDAY) EXCEPT !.signer = "forged"]>>)}
    \cup (IF issued = EmptyToken THEN {}
          ELSE {Header(<<"Bearer", tok>>) :
                  tok \in {issued,
                           [issued EXCEPT !.jwt = FALSE],
                           [issued EXCEPT !.signer = "forged",
                                          !.payload.is_admin = TRUE],
                           [issued EXCEPT !.signer = "forged",
                                          !.payload.exp = @ + Hours(72)]}})

\* POST /auth/exchange-token
ExchangeToken ==
    \E h \in Presentable(custom_token), idp \in IdpAnswers :
        LET v == verify_auth_token(h, firebase_apps, jwks_cache, idp.sdkOk, idp.fetch,
                                   idp.fetch, now)
            r == exchange_firebase_token(v, now, local_tz)
        IN
        /\ auth_header' = h
        /\ token' = IF Len(h.words) >= 2 THEN h.words[2] ELSE EmptyToken
        /\ token_data' = v.data
        /\ jwks_cache' = v.cache
        /\ response' = Response("exchange", r.status, r.body, 0)
        /\ custom_token' = IF r.status = 200 THEN r.custom_token ELSE custom_token
        /\ current_user' = NoUser
        /\ UNCHANGED <<registryVars, now, firebase_apps, guard, pc, is_custom, error,
                       calls, local_tz, verified, tasks, threads>>

\* a request to an operation under require_admin
AdminRequest ==
    \E h \in Presentable(custom_token), idp \in IdpAnswers :
        LET v == verify_auth_token(h, firebase_apps, jwks_cache, idp.sdkOk, idp.fetch,
                                   idp.fetch, now)
        IN
        /\ auth_header' = h
        /\ token' = IF Len(h.words) >= 2 THEN h.words[2] ELSE EmptyToken
        /\ token_data' = v.data
        /\ jwks_cache' = v.cache
        /\ IF ~v.ok
           THEN /\ response' = Response("admin", 401, "Authentication required", 0)
                /\ current_user' = NoUser
           ELSE IF ~is_admin(v.data, admins)
           THEN /\ response' = Response("admin", 403, "Admin access required", 0)
                /\ current_user' = NoUser
           ELSE /\ response' = Response("admin", 200, "f", 0)
                /\ current_user' = UserInfo(v.data, TRUE)
        /\ UNCHANGED <<registryVars, now, firebase_apps, guard, pc, is_custom, error,
                       calls, sessionVars, tasks, threads>>

InitExchange ==
    /\ admins = <<>>
    /\ result = NoResult
    /\ now = SessionStart
    /\ firebase_apps \in BOOLEAN
    /\ jwks_cache = EmptyCache
    /\ guard = "auth"
    /\ auth_header = NoHeader
    /\ pc = "Idle"
    /\ token = EmptyToken
    /\ is_custom = FALSE
    /\ token_data = NoTokenData
    /\ error = NoError
    /\ calls = <<>>
    /\ current_user = NoUser
    /\ local_tz \in Zones
    /\ verified = NotVerified
    /\ custom_token = EmptyToken
    /\ tasks = <<>>
    /\ response = NoResponse
    /\ threads = <<>>

NextExchange ==
    \/ ExchangeToken
    \/ AdminRequest
    \/ Pass

SpecExchange == InitExchange /\ [][NextExchange]_vars

----------------------------------------------------------------------------
(* Requests that verify on the key-set path at the same time: the
   statements of _get_jwks_cached and _verify_with_jwks that read or write
   the shared _jwks_cache, one step each *)

Threads == 1..MaxThreads

\* the locals of one _verify_with_jwks: the statement it is at, the token's
\* kid, whether the forced refetch has begun, the key set at hand, the outcome
Thread(at, kid, refetching, jwks, res) ==
    [at |-> at, kid |-> kid, refetching |-> refetching, jwks |-> jwks, res |-> res]

At(th, at) == threads[th].at = at
OnlyThreads == <<registryVars, now, firebase_apps, requestVars, sessionVars, taskVars>>

\* a request with a provider token reaches _verify_with_jwks
Arrive(th) ==
    /\ threads[th].at \in {"idle", "done"}
    /\ \E kid \in Kids : threads' = [threads EXCEPT ![th] =
                                         Thread("L40", kid, FALSE, JwksNone, "")]
    /\ UNCHANGED <<OnlyThreads, jwks_cache>>

\* line 40, first operand: _jwks_cache['keys'] is read and tested
ReadKeys(th) ==
    /\ At(th, "L40")
    /\ threads' = [threads EXCEPT
                      ![th].at = IF jwks_cache.keys.present THEN "L40_age" ELSE "L42"]
    /\ UNCHANGED <<OnlyThreads, jwks_cache>>

\* line 40, second operand: the age of the cached set against the TTL
ReadFetchedAt(th) ==
    /\ At(th, "L40_age")
    /\ threads' = [threads EXCEPT
                      ![th].at = IF now - jwks_cache.fetched_at < JWKS_TTL
                                 THEN "L41" ELSE "L42"]
    /\ UNCHANGED <<OnlyThreads, jwks_cache>>

\* line 41: _jwks_cache['keys'] is read again and returned
ReturnCached(th) ==
    /\ At(th, "L41")
    /\ threads' = [threads EXCEPT ![th].jwks = jwks_cache.keys, ![th].at = "L56"]
    /\ UNCHANGED <<OnlyThreads, jwks_cache>>

\* line 42: the endpoint answers, or the fetch raises out of the verification
FetchJwks(th) ==
    /\ At(th, "L42")
    /\ \E fetch \in FetchOutcomes :
         threads' = [threads EXCEPT ![th] =
                        IF fetch.ok THEN [@ EXCEPT !.jwks = fetch.jwks, !.at = "L43"]
                        ELSE [@ EXCEPT !.res = "KeySetUnavailable", !.at = "done"]]
    /\ UNCHANGED <<OnlyThreads, jwks_cache>>

\* line 43
StoreKeys(th) ==
    /\ At(th, "L43")
    /\ jwks_cache' = [jwks_cache EXCEPT !.keys = threads[th].jwks]
    /\ threads' = [threads EXCEPT ![th].at = "L44"]
    /\ UNCHANGED OnlyThreads

\* line 44
StoreFetchedAt(th) ==
    /\ At(th, "L44")
    /\ jwks_cache' = [jwks_cache EXCEPT !.fetched_at = now]
    /\ threads' = [threads EXCEPT ![th].at = "L56"]
    /\ UNCHANGED OnlyThreads

\* lines 55-60 and 64-80: the kid is looked up in the key set at hand;
\* jwks.get on None raises AttributeError
FindKey(th) ==
    /\ At(th, "L56")
    /\ LET t == threads[th] IN
       threads' = [threads EXCEPT ![th] =
           IF ~t.jwks.present THEN [t EXCEPT !.res = "AttributeError", !.at = "done"]
           ELSE IF t.kid \in t.jwks.kids THEN [t EXCEPT !.res = "Verified", !.at = "done"]
           ELSE IF ~t.refetching THEN [t EXCEPT !.at = "L62"]
           ELSE [t EXCEPT !.res = "UnknownKey", !.at = "done"]]
    /\ UNCHANGED <<OnlyThreads, jwks_cache>>

\* line 62, then line 63 calls _get_jwks_cached again
ClearKeys(th) ==
    /\ At(th, "L62")
    /\ jwks_cache' = [jwks_cache EXCEPT !.keys = JwksNone]
    /\ threads' = [threads EXCEPT ![th].refetching = TRUE, ![th].at = "L40"]
    /\ UNCHANGED OnlyThreads

InitCache ==
    /\ admins = <<>>
    /\ result = NoResult
    /\ now = 0
    /\ firebase_apps = FALSE
    /\ jwks_cache = EmptyCache
    /\ guard = "auth"
    /\ auth_header = NoHeader
    /\ pc = "Idle"
    /\ token = EmptyToken
    /\ is_custom = FALSE
    /\ token_data = NoTokenData
    /\ error = NoError
    /\ calls = <<>>
    /\ current_user = NoUser
    /\ local_tz = UTC
    /\ verified = NotVerified
    /\ custom_token = EmptyToken
    /\ tasks = <<>>
    /\ response = NoResponse
    /\ threads = [th \in Threads |-> Thread("idle", "", FALSE, JwksNone, "")]

NextCache ==
    \/ \E th \in Threads : Arrive(th)
    \/ \E th \in Threads : ReadKeys(th)
    \/ \E th \in Threads : ReadFetchedAt(th)
    \/ \E th \in Threads : ReturnCached(th)
    \/ \E th \in Threads : FetchJwks(th)
    \/ \E th \in Threads : StoreKeys(th)
    \/ \E th \in Threads : StoreFetchedAt(th)
    \/ \E th \in Threads : FindKey(th)
    \/ \E th \in Threads : ClearKeys(th)
    \/ Elapse

SpecCache == InitCache /\ [][NextCache]_vars

----------------------------------------------------------------------------
(* add_admin calls made at the same time: the read of the existing records
   and the write of the new document are two calls to the store *)

\* the locals of one add_admin: the statement it is at, the email, whether
\* its read of the collection succeeded, and what it returned
AddCall(at, email, readOk, res) ==
    [at |-> at, email |-> email, readOk |-> readOk, res |-> res]

InFlight == Cardinality({th \in DOMAIN threads : threads[th].at \in {"L37", "L56"}})

\* lines 31-34: the call starts; an ill-formed email ends it at once
BeginAdd(th) ==
    /\ threads[th].at \in {"idle", "done"}
    /\ Cardinality(DOMAIN admins) + InFlight < MaxRecords
    /\ \E email \in Emails :
         threads' = [threads EXCEPT ![th] =
                        IF InvalidEmailFormat(email)
                        THEN AddCall("done", email, TRUE, "Invalid email format")
                        ELSE AddCall("L37", email, TRUE, "")]
    /\ UNCHANGED <<OnlyThreads, jwks_cache>>

\* lines 36-40: the existing records are read and searched for the email
CheckExisting(th) ==
    /\ At(th, "L37")
    /\ \E readOk \in BOOLEAN :
         threads' = [threads EXCEPT ![th] =
                        IF AlreadyExists(get_all_admins(admins, readOk), @.email)
                        THEN [@ EXCEPT !.at = "done", !.res = "already exists"]
                        ELSE [@ EXCEPT !.at = "L56", !.readOk = readOk]]
    /\ UNCHANGED <<OnlyThreads, jwks_cache>>

\* an insert that looks for the email again in the same transaction
InsertAdmin_transactional(th) ==
    /\ At(th, "L56")
    /\ \E writeOk \in BOOLEAN :
         IF \E id \in DOMAIN admins : admins[id].email = threads[th].email
         THEN /\ threads' = [threads EXCEPT ![th].at = "done",
                                            ![th].res = "already exists"]
              /\ UNCHANGED admins
         ELSE IF writeOk
         THEN /\ admins' = (FreshId(admins) :> NewAdminData(threads[th].email, now))
                              @@ admins
              /\ threads' = [threads EXCEPT ![th].at = "done", ![th].res = "success"]
         ELSE /\ threads' = [threads EXCEPT ![th].at = "done", ![th].res = "store error"]
              /\ UNCHANGED admins
    /\ UNCHANGED <<result, now, processVars, requestVars, sessionVars, taskVars>>

\* lines 42-64: the document is written, or the store raises (lines 66-68)
InsertAdmin(th) ==
    /\ At(th, "L56")
    /\ \E writeOk \in BOOLEAN :
         IF writeOk
         THEN /\ admins' = (FreshId(admins) :> NewAdminData(threads[th].email, now))
                              @@ admins
              /\ threads' = [threads EXCEPT ![th].at = "done", ![th].res = "success"]
         ELSE /\ threads' = [threads EXCEPT ![th].at = "done", ![th].res = "store error"]
              /\ UNCHANGED admins
    /\ UNCHANGED <<result, now, processVars, requestVars, sessionVars, taskVars>>

InitAdd ==
    /\ admins = <<>>
    /\ result = NoResult
    /\ now = 0
    /\ firebase_apps = FALSE
    /\ jwks_cache = EmptyCache
    /\ guard = "auth"
    /\ auth_header = NoHeader
    /\ pc = "Idle"
    /\ token = EmptyToken
    /\ is_custom = FALSE
    /\ token_data = NoTokenData
    /\ error = NoError
    /\ calls = <<>>
    /\ current_user = NoUser
    /\ local_tz = UTC
    /\ verified = NotVerified
    /\ custom_token = EmptyToken
    /\ tasks = <<>>
    /\ response = NoResponse
    /\ threads = [th \in Threads |-> AddCall("idle", Null, TRUE, "")]

NextAdd ==
    \/ \E th \in Threads : BeginAdd(th)
    \/ \E th \in Threads : CheckExisting(th)
    \/ \E th \in Threads : InsertAdmin(th)
    \/ Tick

SpecAdd == InitAdd /\ [][NextAdd]_vars

----------------------------------------------------------------------------
(* Properties of the request pipeline *)

Invoked == \E i \in DOMAIN calls : calls[i] = "f"
Called(names) == \E i \in DOMAIN calls : calls[i] \in names
Ended == pc \in {"Admitted", "Rejected"}
VerifierEntries == {"verify_custom_token", "verify_id_token", "_verify_with_jwks"}
IdentityVerifierCalls ==
    {"verify_id_token", "_verify_with_jwks", "_get_jwks_cached", "_fetch_jwks"}

\* what the presented token entitles its bearer to, read off the token itself
Entitled ==
    IF token_data._token_type = "custom" THEN token.payload.is_admin = TRUE
    ELSE token.payload.email \in {OUDAY, APPSAAWT}

C1_Order ==
    /\ Invoked =>
         /\ pc = "Admitted"
         /\ auth_header.present
         /\ Len(auth_header.words) >= 2
         /\ auth_header.words[1] = "Bearer"
         /\ token = auth_header.words[2]
         /\ Len(calls) >= 3
         /\ calls[1] = "is_custom_token"
         /\ calls[2] \in VerifierEntries
         /\ calls[Len(calls)] = "f"
         /\ \A i \in 1..(Len(calls) - 1) : calls[i] # "f"
         /\ token_data._token_type \in {"custom", "firebase"}
         /\ guard = "admin" => Entitled
    /\ pc = "Admitted" => Invoked /\ error = NoError
    /\ pc = "Rejected" => ~Invoked /\ error.kind # ""
    /\ ~Ended => error = NoError

C1_Steps ==
    {<<"Idle", "Unauthenticated">>, <<"Admitted", "Unauthenticated">>,
     <<"Rejected", "Unauthenticated">>,
     <<"Unauthenticated", "TokenExtracted">>, <<"Unauthenticated", "Rejected">>,
     <<"TokenExtracted", "Classified">>,
     <<"Classified", "Verified">>, <<"Classified", "Rejected">>,
     <<"Verified", "AuthorizationChecked">>, <<"Verified", "Rejected">>,
     <<"AuthorizationChecked", "Admitted">>}

\* C1: the wrapped operation is invoked only after extraction, classification
\* and successful verification in this order (and, under require_admin, the
\* admin check); a request moves only along Unauthenticated -> TokenExtracted
\* -> Classified -> Verified -> AuthorizationChecked -> Admitted or to
\* Rejected, and every request ends in Admitted or in Rejected, never both.
C1_PipelineOrder ==
    /\ []C1_Order
    /\ [][pc' # pc => <<pc, pc'>> \in C1_Steps]_vars
    /\ (pc = "Unauthenticated") ~> Ended

C1_Witness ==
    /\ pc = "Admitted"
    /\ guard = "admin"
    /\ calls = <<"is_custom_token", "verify_id_token", "_verify_with_jwks",
                 "_get_jwks_cached", "_fetch_jwks", "f">>

\* C2: under require_admin a verified request goes on to the wrapped operation
\* exactly when its session token carries is_admin = true or its
\* identity-provider token's email is one of the two fixed super admins, and
\* is answered InsufficientPrivilege without the wrapped operation otherwise,
\* whatever the Admin Registry holds.
C2_AdminDecision ==
    (guard = "admin" /\ token_data # NoTokenData /\ pc # "Verified") =>
        IF Entitled
        THEN pc \in {"AuthorizationChecked", "Admitted"} /\ error = NoError
        ELSE /\ pc = "Rejected"
             /\ error.kind = "InsufficientPrivilege"
             /\ ~Invoked

\* an active registry admin who is no super admin is refused
C2_Witness ==
    /\ guard = "admin"
    /\ pc = "Rejected"
    /\ error.kind = "InsufficientPrivilege"
    /\ token_data._token_type = "firebase"
    /\ token.payload.email = NEW_ADMIN
    /\ \E i \in DOMAIN admins :
         admins[i].email = NEW_ADMIN /\ admins[i].status = "active"

\* the header has the form 'Bearer <token>'
BearerForm(h) ==
    /\ h.present
    /\ Len(h.words) >= 2
    /\ h.words[1] = "Bearer"
    /\ ~h.words[2].empty

\* C3: a request without an Authorization header is rejected AuthHeaderMissing
\* and one whose header is not 'Bearer <token>' is rejected
\* AuthHeaderMalformed, with no call of the classifier, a verifier or the
\* key-set cache and without the wrapped operation.
C3_HeaderRejectedFirst ==
    (~BearerForm(auth_header) /\ pc \notin {"Idle", "Unauthenticated"}) =>
        /\ pc = "Rejected"
        /\ error.kind = IF ~auth_header.present \/ auth_header.words = <<>>
                        THEN "AuthHeaderMissing" ELSE "AuthHeaderMalformed"
        /\ calls = <<>>

\* a token that passes verify_custom_token, read off the token itself
GenuineSessionToken ==
    /\ token.jwt
    /\ token.alg = "HS256"
    /\ token.signer = "secret"
    /\ token.payload.iss = "thakii-backend"
    /\ token.payload.aud = "thakii-frontend"
    /\ token.payload.token_type = "custom_backend"
    /\ token.payload.user_id # ""
    /\ token.payload.exp > 0

\* C4: a token classified as a session token is verified by
\* verify_custom_token only; it gets past verification only if it is a
\* genuine session token, and otherwise the request is rejected
\* AuthenticationFailed without any call of the identity verifier; a token
\* not classified as a session token never reaches verify_custom_token.
C4_RoutedToOneVerifier ==
    /\ (is_custom /\ Len(calls) >= 2) =>
         /\ calls[2] = "verify_custom_token"
         /\ ~Called(IdentityVerifierCalls)
         /\ \A i \in 3..Len(calls) : calls[i] = "f"
         /\ IF GenuineSessionToken /\ token_data # NoTokenData
            THEN token_data._token_type = "custom"
            ELSE /\ pc = "Rejected"
                 /\ error.kind = "AuthenticationFailed"
                 /\ error.message = "Custom token verification failed"
                 /\ token_data = NoTokenData
    /\ (~is_custom /\ Len(calls) >= 2) =>
         /\ ~Called({"verify_custom_token"})
         /\ calls[2] \in {"verify_id_token", "_verify_with_jwks"}
         /\ token_data # NoTokenData => token_data._token_type = "firebase"

\* a forged token that claims to be a session token is rejected at once
C4_Witness ==
    /\ is_custom
    /\ token.signer = "forged"
    /\ pc = "Rejected"
    /\ error.kind = "AuthenticationFailed"
    /\ calls = <<"is_custom_token", "verify_custom_token">>

----------------------------------------------------------------------------
(* Properties of identity-token verification and of the key-set cache *)

\* the step in which verify_auth_token verifies a token it did not classify
\* as a session token, and the calls made in it
IdentityVerification == pc = "Classified" /\ pc' # "Classified" /\ ~is_custom
Made == SubSeq(calls', Len(calls) + 1, Len(calls'))
MadeCall(name) == \E i \in DOMAIN Made : Made[i] = name
Fetches == Cardinality({i \in DOMAIN Made : Made[i] = "_fetch_jwks"})

\* an identity token of this project, signed by the provider, in its validity
GenuineIdentityToken ==
    /\ token.jwt
    /\ token.alg = "RS256"
    /\ token.kid \in {"k1", "k2"}
    /\ token.signer = token.kid
    /\ token.payload.iss = "https://securetoken.google.com/thakii-973e3"
    /\ token.payload.aud = "thakii-973e3"
    /\ token.payload.exp > now

\* C15: the Admin SDK is tried exactly when it is initialised; the key-set
\* path is tried whenever the SDK is not initialised or refuses the token, so
\* a request is rejected only after the key-set path has failed; a token is
\* accepted only if it is a genuine identity token, with the token's subject
\* and email as claims, and a genuine token is rejected only when neither path
\* could accept it (the SDK refused and no key for its kid could be obtained).
C15_FallbackAttempted ==
    [][IdentityVerification =>
        /\ (Made[1] = "verify_id_token") <=> firebase_apps
        /\ ~firebase_apps => Made[1] = "_verify_with_jwks"
        /\ pc' = "Rejected" =>
             /\ MadeCall("_verify_with_jwks")
             /\ error'.kind = "AuthenticationFailed"
        /\ pc' = "Verified" =>
             /\ GenuineIdentityToken
             /\ token_data'._token_type = "firebase"
             /\ token_data'.claims.sub = token.payload.sub
             /\ token_data'.claims.email = token.payload.email
        /\ (pc' = "Rejected" /\ GenuineIdentityToken) =>
             error'.reason \in {"KeySetUnavailable", "UnknownKey"}
      ]_vars

\* the SDK refuses, the key-set path accepts with a cached key
C15_Witness ==
    /\ firebase_apps
    /\ pc = "Verified"
    /\ calls = <<"is_custom_token", "verify_id_token", "_verify_with_jwks",
                 "_get_jwks_cached">>

\* the cache holds a key set younger than the TTL
Fresh == jwks_cache.keys.present /\ now - jwks_cache.fetched_at < 3600
NoKid == ~token.jwt \/ token.kid = ""

\* C16 as stated: whatever key id is requested, a lookup that finds a key set
\* younger than the TTL fetches nothing, a lookup that finds an older one
\* fetches exactly once, and a lookup on the empty cache fetches at most once.
C16_FetchCount ==
    [][(IdentityVerification /\ MadeCall("_verify_with_jwks")) =>
        /\ Fresh => Fetches = 0
        /\ (jwks_cache.keys.present /\ ~Fresh) => Fetches = 1
        /\ ~jwks_cache.keys.present => Fetches <= 1
      ]_vars

\* C16: a lookup of a key id contained in the cached key set, within the TTL,
\* fetches nothing; a lookup that finds the cache empty or a key set of age
\* TTL or more fetches once; and a lookup of a key id missing from the key set
\* at hand fetches once more (the forced refetch): at most twice per lookup.
C16_FetchCountKnownKey ==
    [][(IdentityVerification /\ MadeCall("_verify_with_jwks")) =>
        /\ Fetches <= 2
        /\ (Fresh /\ (NoKid \/ token.kid \in jwks_cache.keys.kids)) => Fetches = 0
        /\ (Fresh /\ ~NoKid /\ token.kid \notin jwks_cache.keys.kids) => Fetches = 1
        /\ ~Fresh => Fetches >= 1
        /\ (~Fresh /\ NoKid) => Fetches = 1
        /\ pc' = "Verified" => token.kid \in jwks_cache'.keys.kids
      ]_vars

\* a second lookup late in the TTL window is served from the cache
C16_Witness ==
    /\ ~firebase_apps
    /\ pc = "Verified"
    /\ now = 3599
    /\ jwks_cache.keys.present
    /\ jwks_cache.fetched_at = 0
    /\ calls = <<"is_custom_token", "_verify_with_jwks", "_get_jwks_cached">>

\* C17: verification ends in verified claims or in an error value: a request
\* rejected at verification carries AuthenticationFailed with one of
\* verify_auth_token's messages and the error kind raised, has no claims and
\* does not reach the wrapped operation; a failed key-set fetch rejects that
\* request as KeySetUnavailable, and the next request can be taken.
C17_NoErrorEscapes ==
    /\ (pc = "Rejected" /\ calls # <<>>) =>
         \/ error.kind = "InsufficientPrivilege"
         \/ /\ error.kind = "AuthenticationFailed"
            /\ error.message \in {"Custom token verification failed",
                                  "Firebase token verification failed",
                                  "Token verification failed"}
            /\ error.reason \in {"MalformedToken", "UnknownKey", "SignatureInvalid",
                                 "IssuerMismatch", "AudienceMismatch", "Expired",
                                 "Immature", "MissingClaim", "WrongTokenType",
                                 "KeySetUnavailable"}
            /\ token_data = NoTokenData
            /\ ~Invoked
    /\ (Len(calls) >= 2 /\ pc \notin {"Rejected"}) =>
         token_data._token_type \in {"custom", "firebase"}
    /\ Ended => ENABLED NewRequest

\* the key set could not be fetched: this request is rejected
C17_Witness ==
    /\ pc = "Rejected"
    /\ error.kind = "AuthenticationFailed"
    /\ error.reason = "KeySetUnavailable"
    /\ ~jwks_cache.keys.present

\* C21: on the key-set path a token whose header has no kid is rejected as
\* MalformedToken without the key-set cache being consulted: no lookup, no
\* fetch, the cache untouched, whatever the cache holds and the endpoint answers.
C21_KidReadFirst ==
    [][(IdentityVerification /\ MadeCall("_verify_with_jwks")
            /\ token.jwt /\ token.kid = "") =>
        /\ pc' = "Rejected"
        /\ error'.reason = "MalformedToken"
        /\ ~MadeCall("_get_jwks_cached")
        /\ Fetches = 0
        /\ jwks_cache' = jwks_cache
      ]_vars

\* the key-set lookups made in the step
Lookups == Cardinality({i \in DOMAIN Made : Made[i] = "_get_jwks_cached"})

\* C22: a key id missing from the cached key set forces one refetch and one
\* retry of the lookup: one fetch when the cached set was within its TTL, and
\* never more than two lookups and two fetches in all; UnknownKey is reported
\* only after that refetch, when the key set it stored lacks the key id too,
\* and a token accepted after a miss has its key id in the refetched set.
C22_OneRefetchOnMiss ==
    [][(IdentityVerification /\ MadeCall("_verify_with_jwks") /\ ~NoKid) =>
        /\ Fetches <= Lookups /\ Lookups <= 2
        /\ (Fresh /\ token.kid \notin jwks_cache.keys.kids) =>
             Lookups = 2 /\ Fetches = 1
        /\ (Fresh /\ token.kid \in jwks_cache.keys.kids) =>
             Lookups = 1 /\ Fetches = 0
        /\ (pc' = "Rejected" /\ error'.reason = "UnknownKey") =>
             /\ Lookups = 2
             /\ Made[Len(Made)] = "_fetch_jwks"
             /\ jwks_cache'.keys.present
             /\ jwks_cache'.fetched_at = now
             /\ token.kid \notin jwks_cache'.keys.kids
        /\ (pc' = "Verified" /\ Lookups = 2) => token.kid \in jwks_cache'.keys.kids
      ]_vars

\* the cached key set lacked the key id, and so did the refetched one
C22_Witness ==
    /\ ~firebase_apps
    /\ pc = "Rejected"
    /\ error.reason = "UnknownKey"
    /\ jwks_cache.fetched_at > 0
    /\ calls = <<"is_custom_token", "_verify_with_jwks", "_get_jwks_cached",
                 "_get_jwks_cached", "_fetch_jwks">>

\* the step verifies on the key-set path; its first lookup fetched
KeySetPath == IdentityVerification /\ MadeCall("_verify_with_jwks")
FirstLookupFetched ==
    \E i \in DOMAIN Made :
        /\ Made[i] = "_verify_with_jwks"
        /\ i + 2 <= Len(Made)
        /\ Made[i + 1] = "_get_jwks_cached"
        /\ Made[i + 2] = "_fetch_jwks"

\* C23: the lookup that opens a key-set verification serves a cached key set
\* of age below the TTL without fetching and leaves the cache as it is; on an
\* empty cache or a key set of age TTL or more it fetches once, and the set it
\* fetched is stored with the time of the fetch (nothing is stored when the
\* fetch fails).
C23_CachedOrOneFetch ==
    [][KeySetPath =>
        /\ Fresh => ~FirstLookupFetched
        /\ ~Fresh => FirstLookupFetched
        /\ Lookups = 1 =>
             /\ Fetches = (IF Fresh THEN 0 ELSE 1)
             /\ Fresh => jwks_cache' = jwks_cache
             /\ (~Fresh /\ error'.reason # "KeySetUnavailable") =>
                  /\ jwks_cache'.keys.present
                  /\ jwks_cache'.fetched_at = now
             /\ (~Fresh /\ error'.reason = "KeySetUnavailable") =>
                  jwks_cache' = jwks_cache
             /\ (pc' = "Verified") => token.kid \in jwks_cache'.keys.kids
      ]_vars

\* a key set fetched at time 0 has reached the TTL and is replaced
C23_Witness ==
    /\ ~firebase_apps
    /\ pc = "Verified"
    /\ now = 3600
    /\ jwks_cache.keys.present
    /\ jwks_cache.fetched_at = 3600
    /\ calls = <<"is_custom_token", "_verify_with_jwks", "_get_jwks_cached",
                 "_fetch_jwks">>

\* C24: a provider token refused by the Admin SDK and then by the key-set
\* path is rejected with the key-set path's failure: the message is the one
\* of the fallback handler and the reason is what the key-set path found
\* wrong (no key set, no kid, unknown key, signature, issuer, audience,
\* validity), never the SDK's refusal.
C24_FallbackReasonSurfaced ==
    [][(IdentityVerification /\ MadeCall("verify_id_token") /\ pc' = "Rejected") =>
        /\ Made[1] = "verify_id_token" /\ Made[2] = "_verify_with_jwks"
        /\ error'.kind = "AuthenticationFailed"
        /\ error'.message = "Firebase token verification failed"
        /\ error'.reason # "SdkRejected"
        /\ error'.reason \in {"KeySetUnavailable", "MalformedToken", "UnknownKey",
                               "SignatureInvalid", "IssuerMismatch",
                               "AudienceMismatch", "Expired", "Immature"}
        /\ error'.reason = "KeySetUnavailable" => Made[Len(Made)] = "_fetch_jwks"
        /\ error'.reason = "MalformedToken" => NoKid
        /\ error'.reason = "UnknownKey" => token.kid \notin jwks_cache'.keys.kids
        /\ error'.reason = "SignatureInvalid" =>
             token.alg # "RS256" \/ token.signer # token.kid
        /\ error'.reason = "IssuerMismatch" =>
             token.payload.iss # "https://securetoken.google.com/thakii-973e3"
        /\ error'.reason = "AudienceMismatch" => token.payload.aud # "thakii-973e3"
        /\ error'.reason = "Expired" => token.payload.exp <= now
      ]_vars

\* both paths refused an expired provider token
C24_Witness ==
    /\ firebase_apps
    /\ pc = "Rejected"
    /\ error.message = "Firebase token verification failed"
    /\ error.reason = "Expired"
    /\ Called({"verify_id_token"}) /\ Called({"_verify_with_jwks"})

\* C25: whatever the interleaving of the requests that look up and refresh
\* the shared cache, the key set a request gets from _get_jwks_cached is a
\* key set (the cached one or a fetched one), never the cleared slot, and no
\* verification breaks on it.
C25_ReadersSeeWholeSet ==
    \A th \in DOMAIN threads :
        /\ threads[th].at = "L56" => threads[th].jwks.present
        /\ threads[th].res # "AttributeError"

\* C29: a verification that ends on a failed key-set fetch leaves the cache
\* as it was before the lookup that fetched: unchanged when that was its only
\* fetch, and holding the key set fetched just before when the failed fetch
\* was the forced refetch after a first, successful one.
C29_FailedFetchKeepsCache ==
    [][(KeySetPath /\ pc' = "Rejected" /\ error'.reason = "KeySetUnavailable") =>
        IF Fetches = 1 THEN jwks_cache' = jwks_cache
        ELSE jwks_cache'.keys.present /\ jwks_cache'.fetched_at = now
      ]_vars

----------------------------------------------------------------------------
(* Properties of the token exchange *)

\* the step is an exchange (time stands still while a request is handled)
Exchanged == response'.op = "exchange" /\ now' = now

\* C27: an exchange answers 200 with a new session token only when the token
\* presented is a genuine identity token of the provider, verified as such,
\* and the token issued carries that token's email; every other exchange
\* (no header, a token that does not verify, a token the backend signed
\* itself) answers 400 or 401 and issues nothing, so presenting the session
\* token issued last never yields another one.
C27_ExchangeOnlyIdentityTokens ==
    [][Exchanged =>
        /\ response'.status \in {200, 400, 401}
        /\ response'.status = 200 =>
             /\ GenuineIdentityToken'
             /\ token_data'._token_type = "firebase"
             /\ custom_token'.signer = "secret"
             /\ custom_token'.payload.token_type = "custom_backend"
             /\ custom_token'.payload.email = token'.payload.email
             /\ custom_token'.payload.user_id = token'.payload.sub
        /\ response'.status # 200 => custom_token' = custom_token
        /\ ~auth_header'.present => response'.status = 401
        /\ (token'.signer = "secret" \/ token'.payload.token_type = "custom_backend")
             => response'.status \in {400, 401}
        /\ (custom_token # EmptyToken /\ token' = custom_token) => response'.status # 200
        /\ response'.status = 400 => token_data'._token_type = "custom"
      ]_vars

\* the valid session token issued last is presented for exchange and refused
C27_Witness ==
    /\ response.op = "exchange"
    /\ response.status = 400
    /\ custom_token # EmptyToken
    /\ token = custom_token

----------------------------------------------------------------------------
(* Properties of the video task operations *)

\* the user who was answered owns the task asked for, or is a super admin
OwnerOrSuperAdmin ==
    \/ current_user.email \in {OUDAY, APPSAAWT}
    \/ tasks[response.video_id].user_id = current_user.uid

\* C18: the status and download operations answer with a task's data or
\* download URL only to the task's owner or to a super admin; to any other
\* authenticated user asking for an existing task they answer 403 Access
\* denied (500 if the task cannot be read).
C18_OwnerOrSuperAdminOnly ==
    response.op \in {"status", "download"} =>
        /\ response.body \in {"task", "download_url"} =>
             /\ current_user # NoUser
             /\ response.video_id \in DOMAIN tasks
             /\ OwnerOrSuperAdmin
        /\ (response.video_id \in DOMAIN tasks /\ ~OwnerOrSuperAdmin) =>
             \/ response.status = 403 /\ response.body = "Access denied"
             \/ response.status = 500 /\ response.body = "error"

\* another user's finished task is asked for and refused
C18_Witness ==
    /\ response.op = "download"
    /\ response.status = 403
    /\ current_user.uid = "u2"
    /\ tasks[response.video_id].user_id = "u1"
    /\ tasks[response.video_id].status = "done"

----------------------------------------------------------------------------
(* Properties of session tokens *)

\* the subject the identity claims name: the first present of uid, user_id, sub
SubjectOf(c) ==
    IF c.uid # "" THEN c.uid ELSE IF c.user_id # "" THEN c.user_id ELSE c.sub

\* the presented token is the issued one and has just been verified
VerifiedIssued ==
    /\ custom_token # EmptyToken
    /\ token = custom_token
    /\ \E i \in DOMAIN calls : calls[i] = "verify_custom_token"

\* C11: verifying a session token right after issuing it from identity claims
\* succeeds and returns the claims' subject id, email and the admin flag
\* "email is a fixed super admin".
C11_RoundTrip ==
    (VerifiedIssued
     /\ custom_token = generate_custom_token(token_data.claims, now, local_tz)) =>
        /\ verified.ok
        /\ verified.data.user_id = SubjectOf(token_data.claims)
        /\ verified.data.email = token_data.claims.email
        /\ verified.data.is_admin = (token_data.claims.email \in {OUDAY, APPSAAWT})

\* C12: a session token whose expiry is earlier than the current time fails
\* verification with Expired.
C12_ExpiredRejected ==
    (VerifiedIssued /\ token.payload.exp < now) =>
        ~verified.ok /\ verified.error = "Expired"

\* C13: every issued session token expires exactly 72 hours after its
\* issued-at, is valid from its issued-at and carries the session-token
\* discriminator.
C13_IssuedLifetime ==
    custom_token # EmptyToken =>
        /\ custom_token.payload.exp = custom_token.payload.iat + 72 * 3600
        /\ custom_token.payload.nbf = custom_token.payload.iat
        /\ custom_token.payload.token_type = "custom_backend"

Classified == \E i \in DOMAIN calls : calls[i] = "is_custom_token"
SessionPayload ==
    token.payload.token_type = "custom_backend" /\ token.payload.iss = "thakii-backend"

\* C14 as stated: the classification is a function of the payload alone, true
\* exactly when the payload carries the discriminator and the fixed issuer,
\* whatever the signature segment is.
C14_PayloadOnly ==
    Classified => (is_custom <=> SessionPayload)

\* C14: for a token whose three segments decode, the classification is true
\* exactly when the payload carries the discriminator and the fixed issuer,
\* whether or not the signature is valid; a token with a segment that does
\* not decode (the signature segment included) is classified false.
C14_ClassifiedByPayload ==
    Classified => (is_custom <=> (token.jwt /\ SessionPayload))

\* a token with a forged signature is classified as a session token
C14_Witness ==
    /\ Classified
    /\ token.signer = "forged"
    /\ token.jwt
    /\ is_custom

SignedWithSecret == token.jwt /\ token.alg = "HS256" /\ token.signer = "secret"
RequiredPresent ==
    /\ token.payload.exp # NoTime
    /\ token.payload.iat # NoTime
    /\ token.payload.user_id # ""
    /\ token.payload.email # Null
RegisteredClaimsValid ==
    /\ token.payload.iss = "thakii-backend"
    /\ token.payload.aud = "thakii-frontend"
    /\ token.payload.exp > now
    /\ token.payload.iat <= now
    /\ token.payload.nbf # NoTime => token.payload.nbf <= now

\* C20: verify_custom_token accepts a token only if it is signed with the
\* shared secret, exp, iat, user_id and email are present, issuer and audience
\* are the fixed ones, it is neither expired nor immature, and its token_type
\* is the session-token marker; a correctly signed token that lacks a required
\* claim fails with MissingClaim, and a token valid but for its token_type
\* fails with WrongTokenType.
C20_AcceptsOnlyValid ==
    (custom_token # EmptyToken
     /\ \E i \in DOMAIN calls : calls[i] = "verify_custom_token") =>
        /\ verified.ok =>
             /\ SignedWithSecret
             /\ RequiredPresent
             /\ RegisteredClaimsValid
             /\ token.payload.token_type = "custom_backend"
             /\ verified.data = token.payload
        /\ (SignedWithSecret /\ ~RequiredPresent) =>
             ~verified.ok /\ verified.error = "MissingClaim"
        /\ (SignedWithSecret /\ RequiredPresent /\ RegisteredClaimsValid
            /\ token.payload.token_type # "custom_backend") =>
             ~verified.ok /\ verified.error = "WrongTokenType"

\* a correctly signed token of another type is refused
C20_Witness ==
    /\ \E i \in DOMAIN calls : calls[i] = "verify_custom_token"
    /\ SignedWithSecret
    /\ token.payload.token_type = "other"
    /\ verified.error = "WrongTokenType"

----------------------------------------------------------------------------
(* Properties of the Admin Registry *)

\* the step is a call of the registry operation op (result holds its return value)
IsCall(op) == result'.op = op /\ (result' # result \/ admins' # admins)

InSuperAdminSet(email) == \E i \in 1..Len(SUPER_ADMINS_LIST) : SUPER_ADMINS_LIST[i] = email

\* C5: every record whose email is in the fixed super-admin set has status
\* 'active', in every state reachable by add, remove, update and
\* ensureSuperAdminsExist calls.
C5_SuperAdminAlwaysActive ==
    \A id \in DOMAIN admins :
        InSuperAdminSet(admins[id].email) => admins[id].status = "active"

\* C6: every record whose email is in the fixed super-admin set has its
\* super-admin flag set, in every reachable registry state.
C6_SuperAdminFlagNeverCleared ==
    \A id \in DOMAIN admins :
        InSuperAdminSet(admins[id].email) => admins[id].is_super_admin = TRUE

\* C7: a remove call on a record that is a super admin (flag set, or email in
\* the fixed set) never succeeds and leaves the whole collection unchanged, for
\* every caller; whenever the store returns the record, the call fails with
\* 'Cannot remove super admin'.
C7_RemoveSuperAdminProtected ==
    [][\A id \in DOMAIN admins :
          ( /\ IsCall("remove")
            /\ result'.id = id
            /\ (admins[id].is_super_admin \/ InSuperAdminSet(admins[id].email)) )
          => /\ result'.success = FALSE
             /\ admins' = admins
             /\ (result'.storeOps = <<"get">> /\ result'.error # "store error"
                   => result'.error = "Cannot remove super admin")
             /\ (result'.error = "store error" => result'.storeOps = <<"get">>)
      ]_vars

C7_Witness ==
    /\ result.op = "remove"
    /\ result.error = "Cannot remove super admin"
    /\ result.by = EMPTY
    /\ result.id \in DOMAIN admins
    /\ admins[result.id].is_super_admin
    /\ ~InSuperAdminSet(admins[result.id].email)
    /\ admins[result.id].status = "active"

\* C8: an add call for an email that already has a record (active or removed)
\* fails and leaves the collection unchanged, so the second of two sequential
\* adds of one email creates no second record; the failure is 'already exists'
\* (or the store's own error when the write call was reached and raised).
C8_SecondAddRejected ==
    [][\A id \in DOMAIN admins :
          (IsCall("add") /\ admins[id].email = result'.email)
          => /\ result'.success = FALSE
             /\ result'.error \in {"already exists", "store error"}
             /\ admins' = admins
      ]_vars

\* C9: an add call with an email that lacks '@' or lacks '.' fails with
\* 'Invalid email format', makes no store call and leaves the collection unchanged.
C9_InvalidEmailRejected ==
    [][ ( /\ IsCall("add")
          /\ \/ \A i \in 1..Len(result'.email) : result'.email[i] # "@"
             \/ \A i \in 1..Len(result'.email) : result'.email[i] # "." )
        => /\ result'.success = FALSE
           /\ result'.error = "Invalid email format"
           /\ result'.storeOps = <<>>
           /\ admins' = admins
      ]_vars

C9_Witness ==
    /\ result.op = "add"
    /\ result.email = NO_DOT
    /\ result.error = "Invalid email format"
    /\ admins # <<>>

\* C10: no registry call deletes a document: every id of the collection is
\* still there after every step; and a successful remove changes only the
\* removed document, setting status to 'removed', removed_by to the caller and
\* removed_at and updated_at to the time of the call, every other field kept.
C10_SoftDeleteOnly ==
    [][ /\ DOMAIN admins \subseteq DOMAIN admins'
        /\ (IsCall("remove") /\ result'.success)
              => /\ result'.id \in DOMAIN admins
                 /\ admins' = [admins EXCEPT ![result'.id] =
                                  [@ EXCEPT !.status = "removed",
                                            !.removed_by = result'.by,
                                            !.removed_at = now,
                                            !.updated_at = now]]
      ]_vars

C10_Witness ==
    /\ result.op = "remove"
    /\ result.success
    /\ result.by = OUDAY
    /\ Cardinality(DOMAIN admins) = 2
    /\ admins[result.id].status = "removed"
    /\ admins[result.id].removed_by = OUDAY
    /\ admins[result.id].removed_at = now
    /\ now > 0
    /\ admins[result.id].email = NEW_ADMIN

\* C19: once every fixed super admin has a record, a run of
\* ensure_super_admins_exist creates no record and changes none.
C19_Idempotent ==
    [][(result'.op = "ensure"
        /\ \A e \in {OUDAY, APPSAAWT} : \E i \in DOMAIN admins : admins[i].email = e)
       => admins' = admins]_vars


\* C30: an add call during which the read of the existing records fails
\* returns a failure and creates no record: the collection is unchanged, and
\* in particular no second record appears for an email that already has one.
C30_NoRecordOnReadFailure ==
    [][\A email \in Emails, writeOk \in BOOLEAN :
          LET r == add_admin(admins, email, FALSE, writeOk, now) IN
          (IsCall("add") /\ admins' = r.db /\ result' = r.ret)
          => /\ result'.success = FALSE
             /\ admins' = admins
             /\ \A id \in DOMAIN admins' \ DOMAIN admins :
                  \A other \in DOMAIN admins : admins[other].email # admins'[id].email
      ]_vars

\* the records of the collection that carry the email
RecordsOf(email) == {id \in DOMAIN admins : admins[id].email = email}

\* C26: the write of add_admin acts on the answer its existence check gave
\* earlier, whatever has been written since: a call that passed the check
\* and whose write succeeds creates one more record with its email and
\* returns success, also when another call has created a record for that
\* email in between.
C26_InsertActsOnEarlierCheck ==
    [][\A th \in DOMAIN threads :
          (threads[th].at = "L56" /\ threads'[th].at = "done")
          => \/ /\ threads'[th].res = "store error"
                /\ admins' = admins
             \/ /\ threads'[th].res = "success"
                /\ RecordsOf(threads[th].email)' =
                     RecordsOf(threads[th].email) \cup (DOMAIN admins' \ DOMAIN admins)
                /\ Cardinality(DOMAIN admins') = Cardinality(DOMAIN admins) + 1
      ]_vars

\* two calls for one email, both reads answered, both calls succeeded: the
\* collection, which had no record for the email, now has two
C26_Witness ==
    /\ \E a \in DOMAIN threads, b \in DOMAIN threads :
         /\ a # b
         /\ \A th \in {a, b} :
              /\ threads[th].at = "done"
              /\ threads[th].res = "success"
              /\ threads[th].readOk
              /\ threads[th].email = NEW_ADMIN
    /\ Cardinality(RecordsOf(NEW_ADMIN)) = 2
    /\ DOMAIN admins = RecordsOf(NEW_ADMIN)

====
